---- MODULE Spec2Model ----
(***************************************************************************)
(* Model of the go-signalads client library: the request/response pipeline *)
(* (doRequest, parseResponse, Get/Post/Put/Delete), the convenience        *)
(* methods of MessagesService and the error classifier of errors.go.       *)
(*                                                                         *)
(* A Go `error` interface value is a record with a `kind`:                 *)
(*   "nil"      the nil interface                                          *)
(*   "api"      dynamic type *APIError; ptr = 0 is the nil pointer stored  *)
(*              in an interface, ptr > 0 is the address of the struct      *)
(*   "generic"  any other error made by errors.New / fmt.Errorf without %w *)
(*   "wrapped"  fmt.Errorf("...: %w", inner)                               *)
(***************************************************************************)
EXTENDS Integers, Sequences, FiniteSets, TLC

VARIABLES pc, call, wire, resp, result, ret, nextPtr, errIn, errOut, lastOp,
          ctxDone, client, httpClients, clients, procs, predefined

vars == <<pc, call, wire, resp, result, ret, nextPtr, errIn, errOut, lastOp,
          ctxDone, client, httpClients, clients, procs, predefined>>

pipeVars == <<pc, call, wire, resp, result, ret, ctxDone>>

\* the constructed clients and the http.Client objects on the heap
confVars == <<client, httpClients, clients>>

\* the calls running concurrently on one client
concVars == <<procs>>

errVars == <<errIn, errOut, lastOp>>

(***************************************************************************)
(* Bounds of the model.                                                    *)
(***************************************************************************)
\* addresses handed out to APIError values allocated during one behaviour
MaxPtr == 8

\* number of items in the longest bulk message list
MaxBulk == 2

\* number of calls running concurrently on one client
MaxProcs == 2

\* number of clients a program constructs
MaxClients == 2

\* number of options handed to one NewClient
MaxOpts == 2

(***************************************************************************)
(* Program constants.                                                      *)
(***************************************************************************)
StatusOK == 200

StatusMultipleChoices == 300

StatusBadRequest == 400

StatusUnauthorized == 401

StatusPaymentRequired == 402

StatusForbidden == 403

StatusNotFound == 404

StatusTooManyRequests == 429

StatusInternalServerError == 500

StatusServiceUnavailable == 503

ErrCodeInvalidCredentials == "INVALID_CREDENTIALS"

ErrCodeInvalidPhoneNumber == "INVALID_PHONE_NUMBER"

ErrCodeInsufficientBalance == "INSUFFICIENT_BALANCE"

ErrCodeRateLimitExceeded == "RATE_LIMIT_EXCEEDED"

ErrCodeNotFound == "NOT_FOUND"

ErrCodeForbidden == "FORBIDDEN"

ErrCodeBadRequest == "BAD_REQUEST"

ErrCodeInternalServerError == "INTERNAL_SERVER_ERROR"

ErrCodeServiceUnavailable == "SERVICE_UNAVAILABLE"

(***************************************************************************)
(* Error values.                                                           *)
(***************************************************************************)
\* Details is a map[string]interface{}: a set of <<key, value>> pairs, {} = nil map
NoDetails == {}

SomeDetails == {<<"field", "to">>}

NilError == [kind |-> "nil"]

\* the struct APIError behind a non-nil pointer
APIError(p, code, message, statusCode, errorMsg, details) ==
    [kind |-> "api", ptr |-> p, Code |-> code, Message |-> message,
     StatusCode |-> statusCode, ErrorMsg |-> errorMsg, Details |-> details]

\* the nil pointer of type *APIError, also when stored in an error interface
NilAPIError == APIError(0, "", "", 0, "", NoDetails)

GenericError(text) == [kind |-> "generic", text |-> text]

IsNilPtr(e) == e.kind = "api" /\ e.ptr = 0

\* Error() preferring the error text of the server to the message
APIErrorText_ErrorMsgFirst(e) ==
    IF e.ErrorMsg # "" THEN e.ErrorMsg
    ELSE IF e.Message # "" THEN e.Message
    ELSE IF e.Code # "" THEN "API error [" \o e.Code \o "]: status " \o ToString(e.StatusCode)
    ELSE "API error: status " \o ToString(e.StatusCode)

\* func (e *APIError) Error() string
APIErrorText(e) ==
    IF e.Message # "" THEN e.Message
    ELSE IF e.ErrorMsg # "" THEN e.ErrorMsg
    ELSE IF e.Code # "" THEN "API error [" \o e.Code \o "]: status " \o ToString(e.StatusCode)
    ELSE "API error: status " \o ToString(e.StatusCode)

\* err.Error() of any non-nil error value
ErrorText(e) ==
    CASE e.kind = "api" -> APIErrorText(e)
      [] e.kind = "generic" -> e.text
      [] e.kind = "wrapped" -> e.text

\* fmt.Errorf(prefix + ": %w", inner)
WrapF(prefix, inner) ==
    [kind |-> "wrapped", text |-> prefix \o ": " \o ErrorText(inner), inner |-> inner]

\* errors.Unwrap(err)
Unwrap(e) == IF e.kind = "wrapped" THEN e.inner ELSE NilError

\* func NewAPIError(code, message string, statusCode int) *APIError
NewAPIError(p, code, message, statusCode) ==
    APIError(p, code, message, statusCode, "", NoDetails)

(***************************************************************************)
(* Predefined errors (package-level variables).                            *)
(***************************************************************************)
ErrInvalidCredentials ==
    APIError(1, ErrCodeInvalidCredentials, "Invalid API credentials", StatusUnauthorized, "", NoDetails)

ErrNotFound ==
    APIError(2, ErrCodeNotFound, "Resource not found", StatusNotFound, "", NoDetails)

ErrRateLimited ==
    APIError(3, ErrCodeRateLimitExceeded, "Rate limit exceeded", StatusTooManyRequests, "", NoDetails)

ErrInsufficientBalance ==
    APIError(4, ErrCodeInsufficientBalance, "Insufficient balance", StatusPaymentRequired, "", NoDetails)

ErrInvalidPhoneNumber ==
    APIError(5, ErrCodeInvalidPhoneNumber, "Invalid phone number", StatusBadRequest, "", NoDetails)

Singletons ==
    {ErrInvalidCredentials, ErrNotFound, ErrRateLimited, ErrInsufficientBalance,
     ErrInvalidPhoneNumber}

\* the structs the five package-level variables point to, by address
PredefinedErrors ==
    <<ErrInvalidCredentials, ErrNotFound, ErrRateLimited, ErrInsufficientBalance,
      ErrInvalidPhoneNumber>>

\* the predefined structs after the library has returned the *APIError e:
\* the struct at the address of e holds the fields of e
Written(mem, e) ==
    IF e.kind = "api" /\ e.ptr \in DOMAIN mem THEN [mem EXCEPT ![e.ptr] = e] ELSE mem

\* first address free for APIError values allocated at run time
FirstPtr == Cardinality(Singletons) + 1

(***************************************************************************)
(* Classifier helpers of errors.go.  Each starts with the type assertion   *)
(* err.[*APIError], which succeeds exactly for kind "api", the nil pointer *)
(* included.  Every helper but IsAPIError and WrapError then reads a field *)
(* through the pointer, which faults when the pointer is nil: Panics says  *)
(* when, and the operators give the value returned when there is no fault. *)
(***************************************************************************)
Helpers ==
    {"Error", "IsAPIError", "GetStatusCode", "GetErrorCode", "IsErrorCode", "WrapError",
     "IsNotFound", "IsUnauthorized", "IsRateLimited", "IsInsufficientBalance", "IsBadRequest"}

Panics(op, err) ==
    /\ IsNilPtr(err)
    /\ op \notin {"IsAPIError", "WrapError"}

\* IsAPIError looking through one level of wrapping, as errors.As would
IsAPIError_As(err) ==
    err.kind = "api" \/ (err.kind = "wrapped" /\ err.inner.kind = "api")

IsAPIError(err) == err.kind = "api"

GetStatusCode(err) == IF err.kind = "api" THEN err.StatusCode ELSE 0

GetErrorCode(err) == IF err.kind = "api" THEN err.Code ELSE ""

IsErrorCode(err, code) == IF err.kind = "api" THEN err.Code = code ELSE FALSE

IsNotFound(err) ==
    IF err.kind = "api"
    THEN err.StatusCode = StatusNotFound \/ err.Code = ErrCodeNotFound
    ELSE FALSE

IsUnauthorized(err) ==
    IF err.kind = "api"
    THEN err.StatusCode = StatusUnauthorized \/ err.Code = ErrCodeInvalidCredentials
    ELSE FALSE

IsRateLimited(err) ==
    IF err.kind = "api"
    THEN err.StatusCode = StatusTooManyRequests \/ err.Code = ErrCodeRateLimitExceeded
    ELSE FALSE

\* IsInsufficientBalance asking for both the code and the status
IsInsufficientBalance_Both(err) ==
    IF err.kind = "api"
    THEN err.Code = ErrCodeInsufficientBalance /\ err.StatusCode = StatusPaymentRequired
    ELSE FALSE

IsInsufficientBalance(err) ==
    IF err.kind = "api"
    THEN err.Code = ErrCodeInsufficientBalance \/ err.StatusCode = StatusPaymentRequired
    ELSE FALSE

IsBadRequest(err) ==
    IF err.kind = "api"
    THEN err.StatusCode = StatusBadRequest \/ err.Code = ErrCodeBadRequest
    ELSE FALSE

\* WrapError filling the zero status of a typed error with the fallback
WrapError_Backfill(err, statusCode, p) ==
    IF err.kind = "nil" THEN NilAPIError
    ELSE IF err.kind = "api"
    THEN (IF err.ptr # 0 /\ err.StatusCode = 0 THEN [err EXCEPT !.StatusCode = statusCode] ELSE err)
    ELSE APIError(p, "", ErrorText(err), statusCode, "", NoDetails)

\* WrapError stamping the fallback status on the typed error it is given
WrapError_Restamp(err, statusCode, p) ==
    IF err.kind = "nil" THEN NilAPIError
    ELSE IF err.kind = "api"
    THEN (IF err.ptr # 0 THEN [err EXCEPT !.StatusCode = statusCode] ELSE err)
    ELSE APIError(p, "", ErrorText(err), statusCode, "", NoDetails)

\* WrapError finding the typed error inside a wrapping error, as errors.As
\* would
WrapError_Unwraps(err, statusCode, p) ==
    IF err.kind = "nil" THEN NilAPIError
    ELSE IF err.kind = "api" THEN err
    ELSE IF err.kind = "wrapped" /\ err.inner.kind = "api" THEN err.inner
    ELSE APIError(p, "", ErrorText(err), statusCode, "", NoDetails)

\* func WrapError(err error, statusCode int) *APIError; p is the address of
\* the struct allocated on the last path
WrapError(err, statusCode, p) ==
    IF err.kind = "nil" THEN NilAPIError
    ELSE IF err.kind = "api" THEN err
    ELSE APIError(p, "", ErrorText(err), statusCode, "", NoDetails)

(***************************************************************************)
(* Response bodies.  A body is the byte string the server sent, kept with  *)
(* the structure a JSON decoder finds in it:                               *)
(*   form "empty"   no bytes                                               *)
(*        "text"    bytes that are not JSON                                *)
(*        "null"    the JSON value null                                    *)
(*        "array"   a JSON array                                           *)
(*        "object"  a JSON object; a key with value "" / 0 / {} is absent, *)
(*                  and bad names the key (if any) whose JSON value has a  *)
(*                  type the Go field cannot take                          *)
(***************************************************************************)
Body(form, message, code, error, statusCode, details, id, status, to, total, bad) ==
    [form |-> form, message |-> message, code |-> code, error |-> error,
     status_code |-> statusCode, details |-> details,
     id |-> id, status |-> status, to |-> to, total |-> total, bad |-> bad]

EmptyBody == Body("empty", "", "", "", 0, NoDetails, "", "", "", 0, "")

TextBody == Body("text", "", "", "", 0, NoDetails, "", "", "", 0, "")

NullBody == Body("null", "", "", "", 0, NoDetails, "", "", "", 0, "")

ArrayBody == Body("array", "", "", "", 0, NoDetails, "", "", "", 0, "")

ErrObject(message, code, error, statusCode, details, bad) ==
    Body("object", message, code, error, statusCode, details, "", "", "", 0, bad)

OkObject(id, status, to, total, bad) ==
    Body("object", "", "", "", 0, NoDetails, id, status, to, total, bad)

\* bodies a server may send: malformed ones, error objects, success objects
Bodies ==
    {EmptyBody, TextBody, NullBody, ArrayBody,
     ErrObject("Invalid phone number", "", "", StatusBadRequest, NoDetails, ""),
     ErrObject("Invalid phone number", "", "", 0, NoDetails, ""),
     ErrObject("x", "", "", StatusBadRequest, NoDetails, ""),
     ErrObject("", ErrCodeNotFound, "", 0, SomeDetails, ""),
     ErrObject("", ErrCodeInvalidPhoneNumber, "", StatusBadRequest, NoDetails, ""),
     ErrObject("", "", "boom", StatusInternalServerError, SomeDetails, ""),
     ErrObject("", "", "", 418, SomeDetails, ""),
     ErrObject("", "", "", 0, NoDetails, ""),
     ErrObject("Test error", ErrCodeBadRequest, "", 0, NoDetails, "status_code"),
     ErrObject("", ErrCodeRateLimitExceeded, "slow down", StatusTooManyRequests, NoDetails, "message"),
     OkObject("msg-123", "sent", "+1234567890", 0, ""),
     OkObject("", "ok", "", 2, ""),
     OkObject("", "sent", "+1234567890", 0, "id"),
     OkObject("msg-123", "ok", "", 0, "total")}

RECURSIVE Join(_)
\* the members of a JSON object, comma separated
Join(fs) ==
    IF fs = <<>> THEN ""
    ELSE IF Len(fs) = 1 THEN fs[1]
    ELSE fs[1] \o "," \o Join(Tail(fs))

\* one member of a JSON object whose Go field is a string
StrMember(b, key, val) ==
    IF b.bad = key THEN << "\"" \o key \o "\":5" >>
    ELSE IF val = "" THEN << >>
    ELSE << "\"" \o key \o "\":\"" \o val \o "\"" >>

\* one member of a JSON object whose Go field is an int
IntMember(b, key, val) ==
    IF b.bad = key THEN << "\"" \o key \o "\":\"many\"" >>
    ELSE IF val = 0 THEN << >>
    ELSE << "\"" \o key \o "\":" \o ToString(val) >>

DetailsMember(b) ==
    IF b.details = NoDetails THEN << >> ELSE << "\"details\":{\"field\":\"to\"}" >>

\* string(body): the bytes of the body
Raw(b) ==
    CASE b.form = "empty" -> ""
      [] b.form = "text" -> "Internal Server Error"
      [] b.form = "null" -> "null"
      [] b.form = "array" -> "[]"
      [] b.form = "object" ->
           "{" \o Join(StrMember(b, "code", b.code) \o StrMember(b, "message", b.message)
                       \o IntMember(b, "status_code", b.status_code)
                       \o StrMember(b, "error", b.error) \o DetailsMember(b)
                       \o StrMember(b, "id", b.id) \o StrMember(b, "status", b.status)
                       \o StrMember(b, "to", b.to) \o IntMember(b, "total", b.total)) \o "}"

\* json.Unmarshal(body, &apiErr) with apiErr the zero APIError: err says
\* whether Unmarshal returned an error; a key of the wrong JSON type is
\* skipped and reported, the other keys are still stored
UnmarshalAPIError(b) ==
    IF b.form = "object"
    THEN [err |-> b.bad \in {"code", "message", "status_code", "error", "details"},
          Code |-> b.code, Message |-> b.message, StatusCode |-> b.status_code,
          ErrorMsg |-> b.error, Details |-> b.details]
    ELSE [err |-> b.form # "null",
          Code |-> "", Message |-> "", StatusCode |-> 0, ErrorMsg |-> "", Details |-> NoDetails]

(***************************************************************************)
(* Result containers: the value behind the pointer v handed to a verb.     *)
(* type is the Go struct ("nil" when v is nil); attempts counts the calls  *)
(* of json.Unmarshal made with the container as target.                    *)
(***************************************************************************)
\* json keys of each response struct of types.go (those the bodies use)
ContainerKeys(type) ==
    CASE type = "SendMessageResponse" -> {"id", "status", "message", "to"}
      [] type = "SendBulkMessageResponse" -> {"total", "status"}
      [] type = "MessageStatus" -> {"id", "status", "to", "error"}
      [] type = "ListMessagesResponse" -> {"total"}
      [] type = "UserInfo" -> {"id", "status"}
      [] OTHER -> {}

\* var response T: the zero value of the struct
ZeroContainer(type) ==
    [type |-> type, ID |-> "", Status |-> "", Message |-> "", To |-> "", Total |-> 0,
     Error |-> "", attempts |-> 0]

NilContainer == ZeroContainer("nil")

\* one field after decoding: stored when the struct has the key and the JSON
\* type of the value fits; otherwise the field keeps its value
Store(b, v, key, new, old) ==
    IF key \in ContainerKeys(v.type) /\ b.bad # key THEN new ELSE old

\* json.Unmarshal that accepts an empty input as it accepts null
Unmarshal_EmptyOK(b, v) ==
    IF b.form = "object"
    THEN [err |-> b.bad \in ContainerKeys(v.type),
          v |-> [type |-> v.type,
                 ID |-> IF b.id # "" THEN Store(b, v, "id", b.id, v.ID) ELSE v.ID,
                 Status |-> IF b.status # "" THEN Store(b, v, "status", b.status, v.Status) ELSE v.Status,
                 Message |-> IF b.message # "" THEN Store(b, v, "message", b.message, v.Message) ELSE v.Message,
                 To |-> IF b.to # "" THEN Store(b, v, "to", b.to, v.To) ELSE v.To,
                 Total |-> IF b.total # 0 THEN Store(b, v, "total", b.total, v.Total) ELSE v.Total,
                 Error |-> IF b.error # "" THEN Store(b, v, "error", b.error, v.Error) ELSE v.Error,
                 attempts |-> v.attempts + 1]]
    ELSE [err |-> b.form \notin {"null", "empty"}, v |-> [v EXCEPT !.attempts = @ + 1]]

\* json.Unmarshal(body, v) for a non-nil v
Unmarshal(b, v) ==
    IF b.form = "object"
    THEN [err |-> b.bad \in ContainerKeys(v.type),
          v |-> [type |-> v.type,
                 ID |-> IF b.id # "" THEN Store(b, v, "id", b.id, v.ID) ELSE v.ID,
                 Status |-> IF b.status # "" THEN Store(b, v, "status", b.status, v.Status) ELSE v.Status,
                 Message |-> IF b.message # "" THEN Store(b, v, "message", b.message, v.Message) ELSE v.Message,
                 To |-> IF b.to # "" THEN Store(b, v, "to", b.to, v.To) ELSE v.To,
                 Total |-> IF b.total # 0 THEN Store(b, v, "total", b.total, v.Total) ELSE v.Total,
                 Error |-> IF b.error # "" THEN Store(b, v, "error", b.error, v.Error) ELSE v.Error,
                 attempts |-> v.attempts + 1]]
    ELSE [err |-> b.form # "null", v |-> [v EXCEPT !.attempts = @ + 1]]

(***************************************************************************)
(* Client construction.  An http.Client lives on the heap httpClients (a   *)
(* sequence; an address is an index, 0 the nil pointer) and carries its    *)
(* Timeout in seconds; a Client holds the address of its http.Client.      *)
(***************************************************************************)
DefaultBaseURL == "https://panel.signalads.com/api/v1"

DefaultTimeout == 30

\* type Client struct, at address addr; Messages is the MessagesService,
\* which holds the address of its client (0 before it is set)
Client(addr, baseURL, httpClient, apiKey, apiSecret, messages) ==
    [addr |-> addr, baseURL |-> baseURL, httpClient |-> httpClient, apiKey |-> apiKey,
     apiSecret |-> apiSecret, Messages |-> [client |-> messages]]

\* the option values: closures over their argument
WithBaseURL(baseURL) == [opt |-> "WithBaseURL", baseURL |-> baseURL]

WithHTTPClient(httpClient) == [opt |-> "WithHTTPClient", httpClient |-> httpClient]

WithTimeout(timeout) == [opt |-> "WithTimeout", timeout |-> timeout]

\* opt(client): the body of the closure o run on the client st.c under
\* construction, with the heap st.heap
ApplyOption(st, o) ==
    CASE o.opt = "WithBaseURL" -> [st EXCEPT !.c.baseURL = o.baseURL]
      [] o.opt = "WithHTTPClient" -> [st EXCEPT !.c.httpClient = o.httpClient]
      [] o.opt = "WithTimeout" ->
           IF st.c.httpClient # 0
           THEN [st EXCEPT !.heap[st.c.httpClient].Timeout = o.timeout]
           ELSE st

RECURSIVE ApplyOptions(_, _)
\* for _, opt := range opts { opt(client) }
ApplyOptions(st, opts) ==
    IF opts = <<>> THEN st
    ELSE ApplyOptions(ApplyOption(st, Head(opts)), Tail(opts))

\* NewClient running its options from the last to the first
NewClient_LastFirst(apiKey, apiSecret, opts, heap, addr) ==
    LET h == Len(heap) + 1
        st == ApplyOptions([c |-> Client(addr, DefaultBaseURL, h, apiKey, apiSecret, 0),
                            heap |-> Append(heap, [Timeout |-> DefaultTimeout])],
                           [i \in 1..Len(opts) |-> opts[Len(opts) + 1 - i]])
    IN  [c |-> [st.c EXCEPT !.Messages = [client |-> addr]], heap |-> st.heap]

\* NewClient taking the options before it sets the defaults
NewClient_DefaultsLast(apiKey, apiSecret, opts, heap, addr) ==
    LET h == Len(heap) + 1
        st == ApplyOptions([c |-> Client(addr, "", 0, apiKey, apiSecret, 0),
                            heap |-> Append(heap, [Timeout |-> DefaultTimeout])], opts)
    IN  [c |-> Client(addr, DefaultBaseURL, h, apiKey, apiSecret, addr), heap |-> st.heap]

\* func NewClient(apiKey, apiSecret string, opts ...ClientOption) *Client:
\* the client built at address addr and the heap after the construction
NewClient(apiKey, apiSecret, opts, heap, addr) ==
    LET h == Len(heap) + 1
        st == ApplyOptions([c |-> Client(addr, DefaultBaseURL, h, apiKey, apiSecret, 0),
                            heap |-> Append(heap, [Timeout |-> DefaultTimeout])], opts)
    IN  [c |-> [st.c EXCEPT !.Messages = [client |-> addr]], heap |-> st.heap]

\* the base URL of a test server, with a trailing slash
ServerURL == "http://127.0.0.1:8080/"

\* the constructions of the client the calls are made on
Configs ==
    {[apiKey |-> "test-key", apiSecret |-> "test-secret", opts |-> <<>>],
     [apiKey |-> "api-key", apiSecret |-> "api-secret",
      opts |-> <<WithBaseURL(ServerURL), WithTimeout(0)>>]}

\* c.httpClient.Timeout
Timeout == httpClients[client.httpClient].Timeout

(***************************************************************************)
(* Transport pipeline.                                                     *)
(***************************************************************************)
Statuses ==
    {StatusOK, 204, 299, StatusMultipleChoices, StatusBadRequest,
     StatusUnauthorized, StatusPaymentRequired, StatusForbidden, StatusNotFound,
     418, StatusTooManyRequests, StatusInternalServerError,
     StatusServiceUnavailable}

\* getErrorCodeFromStatusCode with the codes of 401 and 403 exchanged
getErrorCodeFromStatusCode_Swapped(statusCode) ==
    CASE statusCode = StatusBadRequest -> ErrCodeBadRequest
      [] statusCode = StatusUnauthorized -> ErrCodeForbidden
      [] statusCode = StatusForbidden -> ErrCodeInvalidCredentials
      [] statusCode = StatusNotFound -> ErrCodeNotFound
      [] statusCode = StatusPaymentRequired -> ErrCodeInsufficientBalance
      [] statusCode = StatusTooManyRequests -> ErrCodeRateLimitExceeded
      [] statusCode = StatusInternalServerError -> ErrCodeInternalServerError
      [] statusCode = StatusServiceUnavailable -> ErrCodeServiceUnavailable
      [] OTHER -> ""

\* func getErrorCodeFromStatusCode(statusCode int) string
getErrorCodeFromStatusCode(statusCode) ==
    CASE statusCode = StatusBadRequest -> ErrCodeBadRequest
      [] statusCode = StatusUnauthorized -> ErrCodeInvalidCredentials
      [] statusCode = StatusForbidden -> ErrCodeForbidden
      [] statusCode = StatusNotFound -> ErrCodeNotFound
      [] statusCode = StatusPaymentRequired -> ErrCodeInsufficientBalance
      [] statusCode = StatusTooManyRequests -> ErrCodeRateLimitExceeded
      [] statusCode = StatusInternalServerError -> ErrCodeInternalServerError
      [] statusCode = StatusServiceUnavailable -> ErrCodeServiceUnavailable
      [] OTHER -> ""

\* resp.StatusCode < 200 || resp.StatusCode >= 300
IsFailureStatus(statusCode) == statusCode < 200 \/ statusCode >= 300

\* classify without the backfill of a zero status_code
classify_NoBackfill(statusCode, body, p) ==
    LET apiErr == UnmarshalAPIError(body)
    IN  IF ~apiErr.err /\ (apiErr.Message # "" \/ apiErr.Code # "" \/ apiErr.ErrorMsg # "")
        THEN APIError(p, apiErr.Code, apiErr.Message, apiErr.StatusCode, apiErr.ErrorMsg, apiErr.Details)
        ELSE NewAPIError(p, getErrorCodeFromStatusCode(statusCode),
                         "API error: status " \o ToString(statusCode) \o ", body: " \o Raw(body),
                         statusCode)

\* the error branch of parseResponse answering a 404 it cannot decode with
\* the predefined ErrNotFound
classify_Predefined(statusCode, body, p) ==
    LET apiErr == UnmarshalAPIError(body)
        backfilled == IF apiErr.StatusCode = 0 THEN statusCode ELSE apiErr.StatusCode
    IN  IF ~apiErr.err /\ (apiErr.Message # "" \/ apiErr.Code # "" \/ apiErr.ErrorMsg # "")
        THEN APIError(p, apiErr.Code, apiErr.Message, backfilled, apiErr.ErrorMsg, apiErr.Details)
        ELSE IF statusCode = StatusNotFound THEN ErrNotFound
        ELSE NewAPIError(p, getErrorCodeFromStatusCode(statusCode),
                         "API error: status " \o ToString(statusCode) \o ", body: " \o Raw(body),
                         statusCode)

\* the error branch of parseResponse putting the HTTP status over the
\* status_code of the body
classify_ResponseStatus(statusCode, body, p) ==
    LET apiErr == UnmarshalAPIError(body)
    IN  IF ~apiErr.err /\ (apiErr.Message # "" \/ apiErr.Code # "" \/ apiErr.ErrorMsg # "")
        THEN APIError(p, apiErr.Code, apiErr.Message, statusCode, apiErr.ErrorMsg, apiErr.Details)
        ELSE NewAPIError(p, getErrorCodeFromStatusCode(statusCode),
                         "API error: status " \o ToString(statusCode) \o ", body: " \o Raw(body),
                         statusCode)

\* the error branch of parseResponse; p is the address of the APIError it returns
classify(statusCode, body, p) ==
    LET apiErr == UnmarshalAPIError(body)
        backfilled == IF apiErr.StatusCode = 0 THEN statusCode ELSE apiErr.StatusCode
    IN  IF ~apiErr.err /\ (apiErr.Message # "" \/ apiErr.Code # "" \/ apiErr.ErrorMsg # "")
        THEN APIError(p, apiErr.Code, apiErr.Message, backfilled, apiErr.ErrorMsg, apiErr.Details)
        ELSE NewAPIError(p, getErrorCodeFromStatusCode(statusCode),
                         "API error: status " \o ToString(statusCode) \o ", body: " \o Raw(body),
                         statusCode)

\* parseResponse decoding the body into the container before the status test
parseResponse_DecodeFirst(r, v, p) ==
    IF ~r.readOK
    THEN [err |-> WrapF("failed to read response body", GenericError("unexpected EOF")), v |-> v,
          closed |-> 1]
    ELSE IF v.type # "nil"
    THEN LET u == Unmarshal(r.body, v)
         IN  IF IsFailureStatus(r.status)
             THEN [err |-> classify(r.status, r.body, p), v |-> u.v, closed |-> 1]
             ELSE IF u.err
             THEN [err |-> WrapF("failed to unmarshal response", GenericError("json: cannot decode")),
                   v |-> u.v, closed |-> 1]
             ELSE [err |-> NilError, v |-> u.v, closed |-> 1]
    ELSE IF IsFailureStatus(r.status)
    THEN [err |-> classify(r.status, r.body, p), v |-> v, closed |-> 1]
    ELSE [err |-> NilError, v |-> v, closed |-> 1]

\* parseResponse going on with what was read when io.ReadAll fails
parseResponse_IgnoreReadError(r, v, p) ==
    IF r.readOK /\ IsFailureStatus(r.status)
    THEN [err |-> classify(r.status, r.body, p), v |-> v, closed |-> 1]
    ELSE IF r.readOK /\ v.type # "nil"
    THEN LET u == Unmarshal(r.body, v)
         IN  IF u.err
             THEN [err |-> WrapF("failed to unmarshal response", GenericError("json: cannot decode")),
                   v |-> u.v, closed |-> 1]
             ELSE [err |-> NilError, v |-> u.v, closed |-> 1]
    ELSE [err |-> NilError, v |-> v, closed |-> 1]

\* parseResponse testing the status before it reads the body
parseResponse_StatusFirst(r, v, p) ==
    IF IsFailureStatus(r.status)
    THEN [err |-> classify(r.status, r.body, p), v |-> v, closed |-> 1]
    ELSE IF ~r.readOK
    THEN [err |-> WrapF("failed to read response body", GenericError("unexpected EOF")), v |-> v,
          closed |-> 1]
    ELSE IF v.type # "nil"
    THEN LET u == Unmarshal(r.body, v)
         IN  IF u.err
             THEN [err |-> WrapF("failed to unmarshal response", GenericError("json: cannot decode")),
                   v |-> u.v, closed |-> 1]
             ELSE [err |-> NilError, v |-> u.v, closed |-> 1]
    ELSE [err |-> NilError, v |-> v, closed |-> 1]

\* parseResponse closing the body at its last statement and not by defer
parseResponse_CloseAtEnd(r, v, p) ==
    IF ~r.readOK
    THEN [err |-> WrapF("failed to read response body", GenericError("unexpected EOF")), v |-> v,
          closed |-> 0]
    ELSE IF IsFailureStatus(r.status)
    THEN [err |-> classify(r.status, r.body, p), v |-> v, closed |-> 0]
    ELSE IF v.type # "nil"
    THEN LET u == Unmarshal(r.body, v)
         IN  IF u.err
             THEN [err |-> WrapF("failed to unmarshal response", GenericError("json: cannot decode")),
                   v |-> u.v, closed |-> 0]
             ELSE [err |-> NilError, v |-> u.v, closed |-> 1]
    ELSE [err |-> NilError, v |-> v, closed |-> 1]

\* func (c *Client) parseResponse(resp *http.Response, v interface{}) error
\* r is the response (status, body, whether io.ReadAll succeeds), v the
\* container; the value is the returned error with the container afterwards
\* and the number of times resp.Body.Close ran (deferred, so once at every
\* return)
parseResponse(r, v, p) ==
    IF ~r.readOK
    THEN [err |-> WrapF("failed to read response body", GenericError("unexpected EOF")), v |-> v,
          closed |-> 1]
    ELSE IF IsFailureStatus(r.status)
    THEN [err |-> classify(r.status, r.body, p), v |-> v, closed |-> 1]
    ELSE IF v.type # "nil"
    THEN LET u == Unmarshal(r.body, v)
         IN  IF u.err
             THEN [err |-> WrapF("failed to unmarshal response", GenericError("json: cannot decode")),
                   v |-> u.v, closed |-> 1]
             ELSE [err |-> NilError, v |-> u.v, closed |-> 1]
    ELSE [err |-> NilError, v |-> v, closed |-> 1]

(***************************************************************************)
(* Arguments of the calls.                                                 *)
(***************************************************************************)
\* ctx: a live context without deadline, one with a deadline, one already
\* canceled, and the nil context
Contexts == {"background", "deadline", "canceled", "nil"}

\* the Params map of a request: absent, or holding a value json.Marshal
\* rejects (a channel)
ParamsValues == {"none", "chan"}

Phones == {"", "+1234567890"}

Texts == {"", "hi"}

\* a nil request pointer
NilReq == [nil |-> TRUE]

SingleReqs ==
    {NilReq} \cup [nil : {FALSE}, To : Phones, Message : Texts, Params : ParamsValues]

TemplateReqs ==
    {NilReq} \cup [nil : {FALSE}, To : Phones, TemplateID : {"", "tpl-1"}, Params : ParamsValues]

VoiceReqs ==
    {NilReq} \cup [nil : {FALSE}, To : Phones, Message : Texts,
                   AudioURL : {"", "https://a/b.mp3"}, Params : {"none"}]

BulkLists ==
    UNION {[1..n -> {[To |-> "+1234567890", Message |-> "hi"],
                     [To |-> "", Message |-> ""]}] : n \in 0..MaxBulk}

BulkReqs == {NilReq} \cup [nil : {FALSE}, Messages : BulkLists, Params : ParamsValues]

\* message ids: empty, plain, one with path and query characters, one with
\* a fragment character, one that is not a valid URL escape
MessageIDs == {"", "msg-123", "a/b?c", "a#b", "%zz"}

\* *PaginationParams
PageParams == {NilReq} \cup [nil : {FALSE}, Page : {-1, 0, 1}, PerPage : {0, 10}]

\* bodies handed to Post and Put: none, a serializable value, a value
\* json.Marshal rejects
VerbBodies == {"nil", "value", "chan"}

\* containers handed to the verbs: nil, or a struct the caller filled before
VerbContainers ==
    {NilContainer, [ZeroContainer("SendMessageResponse") EXCEPT !.ID = "old", !.Status = "old"]}

NoQuery == {}

VerbQueries == {NoQuery, {<<"test", "value">>}, {<<"q", "a b">>, <<"test", "value">>}}

\* an endpoint: its path and the key=value pairs of its own query string
Endpoint(path, rawQuery) == [path |-> path, rawQuery |-> rawQuery]

\* endpoints handed to Get: plain, with a query string of its own, and one
\* that is not a valid URL escape
VerbEndpoints ==
    {Endpoint("/test", <<>>), Endpoint("/test", <<<<"test", "old">>, <<"keep", "1">>>>),
     Endpoint("/%zz", <<>>)}

(***************************************************************************)
(* Convenience methods of MessagesService: validation and dispatch.        *)
(***************************************************************************)
\* the request SendMessage builds for SendSingleMessage
Req(c) ==
    IF c.op = "SendMessage"
    THEN [nil |-> FALSE, To |-> c.to, Message |-> c.message, Params |-> "none"]
    ELSE c.req

\* Validate asking a voice request for its message text even with an audio URL
Validate_VoiceNeedsMessage(c) ==
    CASE c.op \in {"SendSingleMessage", "SendMessage"} ->
           IF Req(c).nil THEN "request cannot be nil"
           ELSE IF Req(c).To = "" THEN "recipient phone number is required"
           ELSE IF Req(c).Message = "" THEN "message text is required"
           ELSE ""
      [] c.op = "SendBulkMessages" ->
           IF c.req.nil THEN "request cannot be nil"
           ELSE IF Len(c.req.Messages) = 0 THEN "at least one message is required"
           ELSE ""
      [] c.op = "SendTemplateMessage" ->
           IF c.req.nil THEN "request cannot be nil"
           ELSE IF c.req.To = "" THEN "recipient phone number is required"
           ELSE IF c.req.TemplateID = "" THEN "template ID is required"
           ELSE ""
      [] c.op = "SendVoiceMessage" ->
           IF c.req.nil THEN "request cannot be nil"
           ELSE IF c.req.To = "" THEN "recipient phone number is required"
           ELSE IF c.req.Message = "" THEN "either message text or audio URL is required"
           ELSE ""
      [] c.op = "GetMessageStatus" ->
           IF c.id = "" THEN "message ID is required" ELSE ""
      [] OTHER -> ""

\* the local checks made before any dispatch: the text of the error
\* returned, "" when the checks pass
Validate(c) ==
    CASE c.op \in {"SendSingleMessage", "SendMessage"} ->
           IF Req(c).nil THEN "request cannot be nil"
           ELSE IF Req(c).To = "" THEN "recipient phone number is required"
           ELSE IF Req(c).Message = "" THEN "message text is required"
           ELSE ""
      [] c.op = "SendBulkMessages" ->
           IF c.req.nil THEN "request cannot be nil"
           ELSE IF Len(c.req.Messages) = 0 THEN "at least one message is required"
           ELSE ""
      [] c.op = "SendTemplateMessage" ->
           IF c.req.nil THEN "request cannot be nil"
           ELSE IF c.req.To = "" THEN "recipient phone number is required"
           ELSE IF c.req.TemplateID = "" THEN "template ID is required"
           ELSE ""
      [] c.op = "SendVoiceMessage" ->
           IF c.req.nil THEN "request cannot be nil"
           ELSE IF c.req.To = "" THEN "recipient phone number is required"
           ELSE IF c.req.Message = "" /\ c.req.AudioURL = ""
                THEN "either message text or audio URL is required"
           ELSE ""
      [] c.op = "GetMessageStatus" ->
           IF c.id = "" THEN "message ID is required" ELSE ""
      [] OTHER -> ""

Verbs == {"Get", "Post", "Put", "Delete"}

IsConvenience(c) == c.op \notin Verbs

\* ListMessages sending page and per_page also when they are 0
ListQuery_ZeroIncluded(params) ==
    IF params.nil THEN NoQuery
    ELSE (IF params.Page >= 0 THEN {<<"page", ToString(params.Page)>>} ELSE {})
         \cup (IF params.PerPage >= 0 THEN {<<"per_page", ToString(params.PerPage)>>} ELSE {})

\* queryParams built by ListMessages
ListQuery(params) ==
    IF params.nil THEN NoQuery
    ELSE (IF params.Page > 0 THEN {<<"page", ToString(params.Page)>>} ELSE {})
         \cup (IF params.PerPage > 0 THEN {<<"per_page", ToString(params.PerPage)>>} ELSE {})

RECURSIVE RawQueryText(_)
\* the query string of an endpoint as the caller wrote it
RawQueryText(rawQuery) ==
    IF rawQuery = <<>> THEN ""
    ELSE Head(rawQuery)[1] \o "=" \o Head(rawQuery)[2]
         \o (IF Tail(rawQuery) = <<>> THEN "" ELSE "&" \o RawQueryText(Tail(rawQuery)))

\* the endpoint string a caller hands to a verb
EndpointText(e) ==
    e.path \o (IF e.rawQuery = <<>> THEN "" ELSE "?" \o RawQueryText(e.rawQuery))

\* GetMessageStatus escaping the id it puts into the path
StatusPath_Escaped(id) ==
    "/messages/"
    \o (CASE id = "a/b?c" -> "a%2Fb%3Fc" [] id = "a#b" -> "a%23b" [] OTHER -> id)
    \o "/status"

\* the endpoint GetMessageStatus asks for
StatusPath(id) == "/messages/" \o id \o "/status"

\* what a call hands to doRequest (method, endpoint, body, queryParams), the
\* container it decodes into and the prefix its errors are wrapped with
Plan(c) ==
    CASE c.op \in {"SendSingleMessage", "SendMessage"} ->
           [method |-> "POST", endpoint |-> Endpoint("/send-message/single", <<>>), urlOK |-> TRUE,
            body |-> Req(c), marshalOK |-> Req(c).Params # "chan", query |-> NoQuery,
            type |-> "SendMessageResponse", prefix |-> "failed to send message"]
      [] c.op = "SendBulkMessages" ->
           [method |-> "POST", endpoint |-> Endpoint("/send-message/bulk", <<>>), urlOK |-> TRUE,
            body |-> c.req, marshalOK |-> c.req.Params # "chan", query |-> NoQuery,
            type |-> "SendBulkMessageResponse", prefix |-> "failed to send bulk messages"]
      [] c.op = "SendTemplateMessage" ->
           [method |-> "POST", endpoint |-> Endpoint("/send-message/template", <<>>), urlOK |-> TRUE,
            body |-> c.req, marshalOK |-> c.req.Params # "chan", query |-> NoQuery,
            type |-> "SendMessageResponse", prefix |-> "failed to send template message"]
      [] c.op = "SendVoiceMessage" ->
           [method |-> "POST", endpoint |-> Endpoint("/send-message/voice", <<>>), urlOK |-> TRUE,
            body |-> c.req, marshalOK |-> c.req.Params # "chan", query |-> NoQuery,
            type |-> "SendMessageResponse", prefix |-> "failed to send voice message"]
      [] c.op = "ListMessages" ->
           [method |-> "GET", endpoint |-> Endpoint("/messages", <<>>), urlOK |-> TRUE,
            body |-> NilReq, marshalOK |-> TRUE, query |-> ListQuery(c.params),
            type |-> "ListMessagesResponse", prefix |-> "failed to list messages"]
      [] c.op = "GetMessageStatus" ->
           [method |-> "GET", endpoint |-> Endpoint(StatusPath(c.id), <<>>),
            urlOK |-> c.id \notin {"%zz"},
            body |-> NilReq, marshalOK |-> TRUE, query |-> NoQuery,
            type |-> "MessageStatus", prefix |-> "failed to get message status"]
      [] c.op = "GetUserInfo" ->
           [method |-> "GET", endpoint |-> Endpoint("/user/info", <<>>), urlOK |-> TRUE,
            body |-> NilReq, marshalOK |-> TRUE, query |-> NoQuery,
            type |-> "UserInfo", prefix |-> "failed to get user info"]
      [] c.op = "Get" ->
           [method |-> "GET", endpoint |-> c.endpoint,
            urlOK |-> c.endpoint.path \notin {"/%zz"},
            body |-> NilReq, marshalOK |-> TRUE, query |-> c.query,
            type |-> c.result.type, prefix |-> ""]
      [] c.op = "Post" ->
           [method |-> "POST", endpoint |-> Endpoint(c.endpoint, <<>>), urlOK |-> TRUE,
            body |-> IF c.body = "nil" THEN NilReq ELSE [nil |-> FALSE, value |-> c.body],
            marshalOK |-> c.body # "chan", query |-> NoQuery,
            type |-> c.result.type, prefix |-> ""]
      [] c.op = "Put" ->
           [method |-> "PUT", endpoint |-> Endpoint(c.endpoint, <<>>), urlOK |-> TRUE,
            body |-> IF c.body = "nil" THEN NilReq ELSE [nil |-> FALSE, value |-> c.body],
            marshalOK |-> c.body # "chan", query |-> NoQuery,
            type |-> c.result.type, prefix |-> ""]
      [] c.op = "Delete" ->
           [method |-> "DELETE", endpoint |-> Endpoint(c.endpoint, <<>>), urlOK |-> TRUE,
            body |-> NilReq, marshalOK |-> TRUE, query |-> NoQuery,
            type |-> c.result.type, prefix |-> ""]

\* url.QueryEscape, for the strings the calls use
QueryEscape(str) == IF str = "a b" THEN "a+b" ELSE str

RECURSIVE QueryEncode(_, _)
\* url.Values.Encode: escaped key=value pairs in key order, joined by &
QueryEncode(q, keys) ==
    IF keys = <<>> THEN ""
    ELSE LET here == {kv \in q : kv[1] = Head(keys)}
             rest == QueryEncode(q, Tail(keys))
         IN  IF here = {} THEN rest
             ELSE LET kv == CHOOSE x \in here : TRUE
                  IN  QueryEscape(kv[1]) \o "=" \o QueryEscape(kv[2])
                      \o (IF rest = "" THEN "" ELSE "&" \o rest)

\* the query keys the calls use, sorted
QueryKeys == <<"keep", "page", "per_page", "q", "test">>

\* u.Query(): the pairs of the query string of the parsed URL
ParseQuery(rawQuery) == {rawQuery[i] : i \in 1..Len(rawQuery)}

\* q.Add(k, v) in the place of q.Set(k, v): the values of the path stay
SetAll_Add(q, queryParams) == q \cup queryParams

\* q.Set(k, v) for every k, v of queryParams
SetAll(q, queryParams) ==
    {kv \in q : \A param \in queryParams : param[1] # kv[1]} \cup queryParams

\* strings.Cut(str, sep) for a separator of one character: str around the
\* first sep
Cut(str, sep) ==
    LET at == {i \in 1..Len(str) : SubSeq(str, i, i) = sep}
        first == CHOOSE i \in at : \A j \in at : i <= j
    IN  IF at = {} THEN [before |-> str, after |-> "", found |-> FALSE]
        ELSE [before |-> SubSeq(str, 1, first - 1),
              after |-> SubSeq(str, first + 1, Len(str)), found |-> TRUE]

\* url.Parse(rawURL) of an absolute URL, as http.NewRequestWithContext
\* applies it: the fragment goes from the first #, the query from the first
\* ?, the path from the first / after the host
ParseURL(rawURL) ==
    LET f == Cut(rawURL, "#")
        q == Cut(f.before, "?")
        s == Cut(q.before, ":")
        a == Cut(SubSeq(s.after, 3, Len(s.after)), "/")
    IN  [scheme |-> s.before, host |-> a.before,
         path |-> IF a.found THEN "/" \o a.after ELSE "",
         rawQuery |-> q.after, fragment |-> f.after]

\* a request carrying the background context whatever the caller's is
Bound_Background(ctx) == "background"

\* the context http.NewRequestWithContext binds the request to
Bound(ctx) == ctx

\* doRequest reporting a body it cannot serialize as a typed bad request
doRequest_TypedMarshalError(ctx, pl) ==
    LET reqURL == client.baseURL \o EndpointText(pl.endpoint)
        q == SetAll(ParseQuery(pl.endpoint.rawQuery), pl.query)
        url == IF pl.query # NoQuery
               THEN client.baseURL \o pl.endpoint.path \o "?" \o QueryEncode(q, QueryKeys)
               ELSE reqURL
        req == [method |-> pl.method, url |-> url, body |-> pl.body, ctx |-> Bound(ctx),
                query |-> IF pl.query # NoQuery THEN q ELSE ParseQuery(pl.endpoint.rawQuery),
                headers |-> [ContentType |-> "application/json", Accept |-> "application/json",
                             XAPIKey |-> client.apiKey, XAPISecret |-> client.apiSecret]]
    IN  IF pl.query # NoQuery /\ ~pl.urlOK
        THEN [err |-> WrapF("invalid URL", GenericError("parse: invalid URL escape")), req |-> req]
        ELSE IF ~pl.body.nil /\ ~pl.marshalOK
        THEN [err |-> WrapError(GenericError("json: unsupported type: chan int"),
                                StatusBadRequest, FirstPtr), req |-> req]
        ELSE IF ctx = "nil"
        THEN [err |-> WrapF("failed to create request", GenericError("net/http: nil Context")),
              req |-> req]
        ELSE IF ~pl.urlOK
        THEN [err |-> WrapF("failed to create request",
                            GenericError("parse: invalid URL escape")), req |-> req]
        ELSE [err |-> NilError, req |-> req]

\* doRequest sending the secret as the key and the key as the secret
doRequest_SwappedCredentials(ctx, pl) ==
    LET reqURL == client.baseURL \o EndpointText(pl.endpoint)
        q == SetAll(ParseQuery(pl.endpoint.rawQuery), pl.query)
        url == IF pl.query # NoQuery
               THEN client.baseURL \o pl.endpoint.path \o "?" \o QueryEncode(q, QueryKeys)
               ELSE reqURL
        req == [method |-> pl.method, url |-> url, body |-> pl.body, ctx |-> Bound(ctx),
                query |-> IF pl.query # NoQuery THEN q ELSE ParseQuery(pl.endpoint.rawQuery),
                headers |-> [ContentType |-> "application/json", Accept |-> "application/json",
                             XAPIKey |-> client.apiSecret, XAPISecret |-> client.apiKey]]
    IN  IF pl.query # NoQuery /\ ~pl.urlOK
        THEN [err |-> WrapF("invalid URL", GenericError("parse: invalid URL escape")), req |-> req]
        ELSE IF ~pl.body.nil /\ ~pl.marshalOK
        THEN [err |-> WrapF("failed to marshal request body",
                            GenericError("json: unsupported type: chan int")), req |-> req]
        ELSE IF ctx = "nil"
        THEN [err |-> WrapF("failed to create request", GenericError("net/http: nil Context")),
              req |-> req]
        ELSE IF ~pl.urlOK
        THEN [err |-> WrapF("failed to create request",
                            GenericError("parse: invalid URL escape")), req |-> req]
        ELSE [err |-> NilError, req |-> req]

\* func (c *Client) doRequest(ctx, method, endpoint, body, queryParams), up
\* to the call of c.httpClient.Do: err is the error returned before Do is
\* reached (nil when Do is called with req).  req.url is the string handed
\* to http.NewRequestWithContext, req.query the pairs of its query string
doRequest(ctx, pl) ==
    LET reqURL == client.baseURL \o EndpointText(pl.endpoint)
        q == SetAll(ParseQuery(pl.endpoint.rawQuery), pl.query)
        url == IF pl.query # NoQuery
               THEN client.baseURL \o pl.endpoint.path \o "?" \o QueryEncode(q, QueryKeys)
               ELSE reqURL
        req == [method |-> pl.method, url |-> url, body |-> pl.body, ctx |-> Bound(ctx),
                query |-> IF pl.query # NoQuery THEN q ELSE ParseQuery(pl.endpoint.rawQuery),
                headers |-> [ContentType |-> "application/json", Accept |-> "application/json",
                             XAPIKey |-> client.apiKey, XAPISecret |-> client.apiSecret]]
    IN  IF pl.query # NoQuery /\ ~pl.urlOK
        THEN [err |-> WrapF("invalid URL", GenericError("parse: invalid URL escape")), req |-> req]
        ELSE IF ~pl.body.nil /\ ~pl.marshalOK
        THEN [err |-> WrapF("failed to marshal request body",
                            GenericError("json: unsupported type: chan int")), req |-> req]
        ELSE IF ctx = "nil"
        THEN [err |-> WrapF("failed to create request", GenericError("net/http: nil Context")),
              req |-> req]
        ELSE IF ~pl.urlOK
        THEN [err |-> WrapF("failed to create request",
                            GenericError("parse: invalid URL escape")), req |-> req]
        ELSE [err |-> NilError, req |-> req]

\* a convenience method formatting the error of the verb with %v
Finish_Opaque(c, err) ==
    IF IsConvenience(c)
    THEN IF err.kind # "nil"
         THEN [response |-> "nil", verb |-> err,
               err |-> GenericError(Plan(c).prefix \o ": " \o ErrorText(err))]
         ELSE [response |-> "&response", err |-> NilError, verb |-> err]
    ELSE [response |-> "none", err |-> err, verb |-> err]

\* what the called method returns for the error err of the verb: the verbs
\* return it as it is; a convenience method returns (nil, wrapped error) or
\* (&response, nil); verb records the error the verb returned
Finish(c, err) ==
    IF IsConvenience(c)
    THEN IF err.kind # "nil"
         THEN [response |-> "nil", err |-> WrapF(Plan(c).prefix, err), verb |-> err]
         ELSE [response |-> "&response", err |-> NilError, verb |-> err]
    ELSE [response |-> "none", err |-> err, verb |-> err]

(***************************************************************************)
(* State.                                                                  *)
(*   pc      "idle" no call running, "inflight" c.httpClient.Do has been   *)
(*           called and has not returned, "done" the call has returned     *)
(*   call    the running or last call and its arguments                    *)
(*   wire    the requests handed to c.httpClient.Do during the call        *)
(*   resp    the response Do returned, with the number of Close calls      *)
(*   result  the container the verb decodes into                           *)
(*   ret     what the call returned                                        *)
(*   nextPtr the next free address for an APIError                         *)
(*   errIn, errOut, lastOp  the error value a caller hands to a classifier *)
(*           helper, the helper applied last and its outcome               *)
(*   predefined  the structs behind ErrInvalidCredentials .. ErrInvalid-   *)
(*           PhoneNumber, by address                                       *)
(***************************************************************************)
NoCall == [op |-> "none"]

NoResp == [status |-> 0]

NoReturn == [response |-> "none", err |-> NilError, verb |-> NilError, returned |-> FALSE]

NoOut == [panic |-> FALSE]

Returned(r) == [response |-> r.response, err |-> r.err, verb |-> r.verb, returned |-> TRUE]

\* the container a call decodes into: the caller's for a verb, the local
\* variable `response` of a convenience method
ContainerOf(c) ==
    IF IsConvenience(c) THEN ZeroContainer(Plan(c).type) ELSE c.result

\* the variables of one call: its frame
Frame ==
    [pc |-> pc, call |-> call, wire |-> wire, resp |-> resp, result |-> result, ret |-> ret,
     ctxDone |-> ctxDone]

\* the frame of a call that has not begun
IdleFrame ==
    [pc |-> "idle", call |-> NoCall, wire |-> <<>>, resp |-> NoResp, result |-> NilContainer,
     ret |-> NoReturn, ctxDone |-> FALSE]

\* the call's variables become those of frame f
Step(f) ==
    \E to \in {f} :
        /\ pc' = to.pc
        /\ call' = to.call
        /\ wire' = to.wire
        /\ resp' = to.resp
        /\ result' = to.result
        /\ ret' = to.ret
        /\ ctxDone' = to.ctxDone

\* the frame of call c from its entry to the point where it blocks in
\* c.httpClient.Do, or to its return when it fails before
Enter(c) ==
    IF Validate(c) # ""
    THEN [IdleFrame EXCEPT !.pc = "done", !.call = c, !.ctxDone = (c.ctx = "canceled"),
                           !.ret = Returned([response |-> "nil", verb |-> NilError,
                                             err |-> GenericError(Validate(c))])]
    ELSE LET d == doRequest(c.ctx, Plan(c))
         IN  IF d.err.kind # "nil"
             THEN [IdleFrame EXCEPT !.pc = "done", !.call = c, !.ctxDone = (c.ctx = "canceled"),
                                    !.result = ContainerOf(c),
                                    !.ret = Returned(Finish(c, d.err))]
             ELSE [IdleFrame EXCEPT !.pc = "inflight", !.call = c,
                                    !.ctxDone = (c.ctx = "canceled"),
                                    !.result = ContainerOf(c), !.wire = <<d.req>>]

\* a call from its entry to the point where it blocks in c.httpClient.Do, or
\* to its return when it fails before
Begin(c) ==
    /\ pc = "idle"
    /\ nextPtr < MaxPtr
    /\ Step(Enter(c))
    /\ UNCHANGED <<nextPtr, errVars, confVars, concVars, predefined>>

SendSingleMessage ==
    \E ctx \in Contexts, req \in SingleReqs :
        Begin([op |-> "SendSingleMessage", ctx |-> ctx, req |-> req])

SendMessage ==
    \E ctx \in Contexts, to \in Phones, message \in Texts :
        Begin([op |-> "SendMessage", ctx |-> ctx, to |-> to, message |-> message])

SendBulkMessages ==
    \E ctx \in Contexts, req \in BulkReqs :
        Begin([op |-> "SendBulkMessages", ctx |-> ctx, req |-> req])

SendTemplateMessage ==
    \E ctx \in Contexts, req \in TemplateReqs :
        Begin([op |-> "SendTemplateMessage", ctx |-> ctx, req |-> req])

SendVoiceMessage ==
    \E ctx \in Contexts, req \in VoiceReqs :
        Begin([op |-> "SendVoiceMessage", ctx |-> ctx, req |-> req])

ListMessages ==
    \E ctx \in Contexts, params \in PageParams :
        Begin([op |-> "ListMessages", ctx |-> ctx, params |-> params])

GetMessageStatus ==
    \E ctx \in Contexts, id \in MessageIDs :
        Begin([op |-> "GetMessageStatus", ctx |-> ctx, id |-> id])

GetUserInfo ==
    \E ctx \in Contexts : Begin([op |-> "GetUserInfo", ctx |-> ctx])

Get ==
    \E ctx \in Contexts, e \in VerbEndpoints, v \in VerbContainers, q \in VerbQueries :
        Begin([op |-> "Get", ctx |-> ctx, endpoint |-> e, result |-> v, query |-> q])

Post ==
    \E ctx \in Contexts, v \in VerbContainers, b \in VerbBodies :
        Begin([op |-> "Post", ctx |-> ctx, endpoint |-> "/test", result |-> v, body |-> b])

Put ==
    \E ctx \in Contexts, v \in VerbContainers, b \in VerbBodies :
        Begin([op |-> "Put", ctx |-> ctx, endpoint |-> "/test", result |-> v, body |-> b])

Delete ==
    \E ctx \in Contexts, v \in VerbContainers :
        Begin([op |-> "Delete", ctx |-> ctx, endpoint |-> "/test", result |-> v])

\* the context of the request frame f has on the wire is done: canceled, or
\* its deadline has elapsed
ExpiredIn(f) == f.ctxDone /\ f.wire # <<>> /\ f.wire[1].ctx = f.call.ctx

\* causes for which c.httpClient.Do returns an error for a request bound to
\* ctx, done telling that ctx is done, under the Client's timeout
DoFailures(ctx, done, timeout) ==
    CASE ctx = "canceled" -> {"context canceled"}
      [] ctx = "deadline" /\ done -> {"context deadline exceeded"}
      [] OTHER -> {"connection refused"}
                  \cup (IF timeout > 0
                        THEN {"Client.Timeout exceeded while awaiting headers"}
                        ELSE {})

\* the *url.Error that c.httpClient.Do returns
URLError(req, cause) ==
    WrapF(req.method \o " " \o req.url, GenericError(cause))

\* the deadline of the caller's context elapses while the call is in flight
ContextDone ==
    /\ pc = "inflight"
    /\ call.ctx = "deadline"
    /\ ~ctxDone
    /\ ctxDone' = TRUE
    /\ UNCHANGED <<pc, call, wire, resp, result, ret, nextPtr, errVars, confVars, concVars, predefined>>

\* frame f after c.httpClient.Do returned an error for cause: doRequest
\* wraps it and the verb returns
Fail(f, cause) ==
    [f EXCEPT !.pc = "done",
              !.ret = Returned(Finish(f.call, WrapF("request failed",
                                                    URLError(f.wire[1], cause))))]

\* frame f after c.httpClient.Do returned a response and parseResponse
\* handled it, an APIError being allocated at p
Receive(f, status, body, readOK, p) ==
    LET out == parseResponse([status |-> status, body |-> body, readOK |-> readOK],
                             f.result, p)
    IN  [f EXCEPT !.pc = "done",
                  !.resp = [status |-> status, body |-> body, readOK |-> readOK,
                            closed |-> out.closed],
                  !.result = out.v,
                  !.ret = Returned(Finish(f.call, out.err))]

\* the responses the transport can hand to the call with frame f: the read
\* of the body fails on a connection that breaks (no body then), and it
\* does not complete once the context of the request is done
Receivable(f, body, readOK) ==
    /\ f.wire[1].ctx # "canceled"
    /\ readOK \/ body = EmptyBody
    /\ ExpiredIn(f) => ~readOK

\* c.httpClient.Do returns an error: doRequest wraps it and the verb returns
DoFails ==
    /\ pc = "inflight"
    /\ \E cause \in DoFailures(wire[1].ctx, ExpiredIn(Frame), Timeout) : Step(Fail(Frame, cause))
    /\ UNCHANGED <<nextPtr, errVars, confVars, concVars, predefined>>

\* c.httpClient.Do returns a response and parseResponse handles it; readOK
\* says whether io.ReadAll gets the whole body
DoReturns ==
    /\ pc = "inflight"
    /\ \E status \in Statuses, body \in Bodies, readOK \in BOOLEAN :
           /\ Receivable(Frame, body, readOK)
           /\ \E to \in {Receive(Frame, status, body, readOK, nextPtr)} :
                  /\ Step(to)
                  /\ predefined' = Written(predefined, to.ret.verb)
           /\ nextPtr' = IF readOK /\ IsFailureStatus(status) THEN nextPtr + 1 ELSE nextPtr
    /\ UNCHANGED <<errVars, confVars, concVars>>

\* the caller is ready for its next call
Reset ==
    /\ pc = "done"
    /\ pc' = "idle"
    /\ call' = NoCall
    /\ wire' = <<>>
    /\ resp' = NoResp
    /\ result' = NilContainer
    /\ ret' = NoReturn
    /\ ctxDone' = FALSE
    /\ UNCHANGED <<nextPtr, errVars, confVars, concVars, predefined>>

\* the pipeline variables before any call
Idle ==
    /\ pc = "idle"
    /\ call = NoCall
    /\ wire = <<>>
    /\ resp = NoResp
    /\ result = NilContainer
    /\ ret = NoReturn
    /\ ctxDone = FALSE

\* no classifier helper has been applied
Unclassified ==
    /\ errIn = NilError
    /\ errOut = NoOut
    /\ lastOp = "none"

\* the client built by config on an empty heap, and no other client
Constructed(config) ==
    LET new == NewClient(config.apiKey, config.apiSecret, config.opts, <<>>, 1)
    IN  /\ client = new.c
        /\ httpClients = new.heap
        /\ clients = <<>>

\* between two calls the program constructs the client it makes its next
\* calls on
Construct ==
    /\ pc = "idle"
    /\ \E config \in Configs :
           LET new == NewClient(config.apiKey, config.apiSecret, config.opts, <<>>, 1)
           IN  /\ client' = new.c
               /\ httpClients' = new.heap
    /\ UNCHANGED <<pipeVars, nextPtr, errVars, clients, concVars, predefined>>

Init ==
    /\ Idle
    /\ Unclassified
    /\ nextPtr = FirstPtr
    /\ Constructed([apiKey |-> "test-key", apiSecret |-> "test-secret", opts |-> <<>>])
    /\ procs = <<>>
    /\ predefined = PredefinedErrors

Next ==
    \/ SendSingleMessage
    \/ SendMessage
    \/ SendBulkMessages
    \/ SendTemplateMessage
    \/ SendVoiceMessage
    \/ ListMessages
    \/ GetMessageStatus
    \/ GetUserInfo
    \/ Get
    \/ Post
    \/ Put
    \/ Delete
    \/ Construct
    \/ ContextDone
    \/ DoFails
    \/ DoReturns
    \/ Reset

Spec == Init /\ [][Next]_vars

\* time passes: the deadline of a context elapses, and http.Client.Do gives
\* up on a request whose context is done or whose client timeout is positive,
\* unless the response arrives first
SpecLive ==
    /\ Init
    /\ [][Next]_vars
    /\ WF_vars(ContextDone)
    /\ WF_vars((ExpiredIn(Frame) \/ Timeout > 0) /\ DoFails)

(***************************************************************************)
(* The classifier applied by a caller to an error value of its choice.     *)
(***************************************************************************)
\* typed errors a caller may hold (all behind the same address)
TypedErrors ==
    {APIError(FirstPtr, c, m, st, em, d) :
        c \in {"", ErrCodeNotFound, ErrCodeInvalidCredentials, ErrCodeRateLimitExceeded,
               ErrCodeInsufficientBalance, ErrCodeBadRequest, ErrCodeInvalidPhoneNumber,
               "not_found"},
        m \in {"", "Test message"},
        st \in {0, StatusBadRequest, StatusUnauthorized, StatusPaymentRequired,
                StatusNotFound, StatusTooManyRequests, StatusInternalServerError},
        em \in {"", "server said no"}, d \in {NoDetails, SomeDetails}}

ErrValues ==
    {NilError, NilAPIError} \cup TypedErrors \cup Singletons \cup
    {GenericError("test error"), GenericError(""),
     WrapF("failed to send message", ErrNotFound),
     WrapF("failed to send message",
           APIError(FirstPtr, "", "Invalid phone number", StatusBadRequest, "", NoDetails)),
     WrapF("failed to get message status",
           APIError(FirstPtr, ErrCodeNotFound, "", StatusNotFound, "", SomeDetails)),
     WrapF("request failed", GenericError("context deadline exceeded"))}

\* the helper op applied to errIn: it faults, or returns val; passed says
\* that errIn is a result of WrapError stored in an error variable
Apply(op, arg, val) ==
    /\ lastOp' = op
    /\ errOut' = IF Panics(op, errIn)
                 THEN [panic |-> TRUE, in |-> errIn, arg |-> arg, passed |-> lastOp = "PassOn"]
                 ELSE [panic |-> FALSE, in |-> errIn, arg |-> arg, passed |-> lastOp = "PassOn",
                       val |-> val]
    /\ UNCHANGED <<pipeVars, errIn, confVars, concVars>>

ApplyError ==
    /\ errIn.kind # "nil"
    /\ Apply("Error", "", ErrorText(errIn))
    /\ UNCHANGED <<nextPtr, predefined>>

ApplyIsAPIError ==
    /\ Apply("IsAPIError", "", IsAPIError(errIn))
    /\ UNCHANGED <<nextPtr, predefined>>

ApplyGetStatusCode ==
    /\ Apply("GetStatusCode", "", GetStatusCode(errIn))
    /\ UNCHANGED <<nextPtr, predefined>>

ApplyGetErrorCode ==
    /\ Apply("GetErrorCode", "", GetErrorCode(errIn))
    /\ UNCHANGED <<nextPtr, predefined>>

ApplyIsErrorCode ==
    /\ \E code \in {"", ErrCodeNotFound, "not_found", ErrCodeInvalidPhoneNumber} :
           Apply("IsErrorCode", code, IsErrorCode(errIn, code))
    /\ UNCHANGED <<nextPtr, predefined>>

ApplyIsNotFound ==
    /\ Apply("IsNotFound", "", IsNotFound(errIn))
    /\ UNCHANGED <<nextPtr, predefined>>

ApplyIsUnauthorized ==
    /\ Apply("IsUnauthorized", "", IsUnauthorized(errIn))
    /\ UNCHANGED <<nextPtr, predefined>>

ApplyIsRateLimited ==
    /\ Apply("IsRateLimited", "", IsRateLimited(errIn))
    /\ UNCHANGED <<nextPtr, predefined>>

ApplyIsInsufficientBalance ==
    /\ Apply("IsInsufficientBalance", "", IsInsufficientBalance(errIn))
    /\ UNCHANGED <<nextPtr, predefined>>

ApplyIsBadRequest ==
    /\ Apply("IsBadRequest", "", IsBadRequest(errIn))
    /\ UNCHANGED <<nextPtr, predefined>>

ApplyWrapError ==
    /\ errIn.kind \in {"nil", "api"} \/ nextPtr < MaxPtr
    /\ \E statusCode \in {0, StatusNotFound, StatusInternalServerError} :
           \E r \in {WrapError(errIn, statusCode, nextPtr)} :
               /\ Apply("WrapError", statusCode, r)
               /\ predefined' = Written(predefined, r)
    /\ nextPtr' = IF errIn.kind \in {"nil", "api"} THEN nextPtr ELSE nextPtr + 1

\* the *APIError returned by WrapError is stored in an error variable and
\* becomes the next value the caller inspects
PassOn ==
    /\ lastOp = "WrapError"
    /\ errIn' = errOut.val
    /\ lastOp' = "PassOn"
    /\ errOut' = [panic |-> FALSE, in |-> errOut.in, arg |-> errOut.arg, passed |-> FALSE,
                  val |-> errOut.val]
    /\ UNCHANGED <<pipeVars, nextPtr, confVars, concVars, predefined>>

InitErr ==
    /\ Idle
    /\ nextPtr = FirstPtr + 1
    /\ errIn \in ErrValues
    /\ errOut = NoOut
    /\ lastOp = "none"
    /\ Constructed([apiKey |-> "test-key", apiSecret |-> "test-secret", opts |-> <<>>])
    /\ procs = <<>>
    /\ predefined = PredefinedErrors

NextErr ==
    \/ ApplyError
    \/ ApplyIsAPIError
    \/ ApplyGetStatusCode
    \/ ApplyGetErrorCode
    \/ ApplyIsErrorCode
    \/ ApplyIsNotFound
    \/ ApplyIsUnauthorized
    \/ ApplyIsRateLimited
    \/ ApplyIsInsufficientBalance
    \/ ApplyIsBadRequest
    \/ ApplyWrapError
    \/ PassOn

SpecErr == InitErr /\ [][NextErr]_vars

(***************************************************************************)
(* Concurrent calls on one client: procs[p] is the frame of call p.  The   *)
(* calls share the Client, its http.Client and the heap APIError values    *)
(* are allocated on.                                                       *)
(***************************************************************************)
Procs == 1..MaxProcs

\* the calls made concurrently
ConcCalls ==
    {[op |-> "SendMessage", ctx |-> "background", to |-> "+1234567890", message |-> "hi"],
     [op |-> "SendMessage", ctx |-> "background", to |-> "", message |-> "hi"],
     [op |-> "GetMessageStatus", ctx |-> "deadline", id |-> "msg-123"],
     [op |-> "Post", ctx |-> "background", endpoint |-> "/test", body |-> "chan",
      result |-> NilContainer]}

ConcBodies ==
    {EmptyBody, ErrObject("", ErrCodeNotFound, "", 0, SomeDetails, ""),
     OkObject("msg-123", "sent", "+1234567890", 0, "")}

\* every call decoding into one container kept outside the calls
Container_Shared(ps, p) == ps[1].result

\* the container call p decodes into: the local variable `response` of its
\* own method invocation
Container(ps, p) == ps[p].result

CallBegins(p) ==
    /\ procs[p].pc = "idle"
    /\ \E c \in ConcCalls : procs' = [procs EXCEPT ![p] = Enter(c)]
    /\ UNCHANGED <<pipeVars, nextPtr, errVars, confVars, predefined>>

\* the deadline of the context of call p elapses
CallContextDone(p) ==
    /\ procs[p].pc = "inflight"
    /\ procs[p].call.ctx = "deadline"
    /\ ~procs[p].ctxDone
    /\ procs' = [procs EXCEPT ![p].ctxDone = TRUE]
    /\ UNCHANGED <<pipeVars, nextPtr, errVars, confVars, predefined>>

CallFails(p) ==
    /\ procs[p].pc = "inflight"
    /\ \E cause \in DoFailures(procs[p].wire[1].ctx, ExpiredIn(procs[p]), Timeout) :
           procs' = [procs EXCEPT ![p] = Fail(procs[p], cause)]
    /\ UNCHANGED <<pipeVars, nextPtr, errVars, confVars, predefined>>

CallReturns(p) ==
    /\ procs[p].pc = "inflight"
    /\ \E status \in {StatusOK, StatusNotFound}, body \in ConcBodies, readOK \in BOOLEAN :
           /\ Receivable(procs[p], body, readOK)
           /\ \E to \in {Receive([procs[p] EXCEPT !.result = Container(procs, p)],
                                  status, body, readOK, nextPtr)} :
                  /\ procs' = [procs EXCEPT ![p] = to]
                  /\ predefined' = Written(predefined, to.ret.verb)
           /\ nextPtr' = IF readOK /\ IsFailureStatus(status) THEN nextPtr + 1 ELSE nextPtr
    /\ UNCHANGED <<pipeVars, errVars, confVars>>

InitConc ==
    /\ Idle
    /\ Unclassified
    /\ nextPtr = FirstPtr
    /\ Constructed([apiKey |-> "test-key", apiSecret |-> "test-secret",
                    opts |-> <<WithBaseURL(ServerURL)>>])
    /\ procs = [p \in Procs |-> IdleFrame]
    /\ predefined = PredefinedErrors

NextConc ==
    \E p \in Procs :
        \/ CallBegins(p)
        \/ CallContextDone(p)
        \/ CallFails(p)
        \/ CallReturns(p)

SpecConc == InitConc /\ [][NextConc]_vars

(***************************************************************************)
(* A program constructing clients: clients[i] is the i-th client with the  *)
(* arguments it was constructed from.  The program holds one http.Client   *)
(* of its own, at address CustomClient, which it may hand to               *)
(* WithHTTPClient.                                                         *)
(***************************************************************************)
\* customClient := &http.Client{Timeout: 30 * time.Second, ...}
CustomClient == Len(<<[Timeout |-> DefaultTimeout]>>)

\* the options a program hands to NewClient; 0 is the nil *http.Client
Options ==
    {WithBaseURL(ServerURL), WithHTTPClient(CustomClient), WithHTTPClient(0), WithTimeout(60)}

\* the argument lists: up to MaxOpts options, none handed over twice
OptionLists ==
    {opts \in UNION {[1..n -> Options] : n \in 0..MaxOpts} :
         \A i, j \in 1..Len(opts) : opts[i] = opts[j] => i = j}

\* client := NewClient(apiKey, apiSecret, opts...)
New ==
    /\ Len(clients) < MaxClients
    /\ \E cred \in {<<"test-key", "test-secret">>, <<"api-key", "api-secret">>}, opts \in OptionLists :
           LET new == NewClient(cred[1], cred[2], opts, httpClients, Len(clients) + 1)
           IN  /\ clients' = Append(clients, [args |-> [apiKey |-> cred[1],
                                                        apiSecret |-> cred[2],
                                                        opts |-> opts],
                                              c |-> new.c])
               /\ httpClients' = new.heap
    /\ UNCHANGED <<pipeVars, nextPtr, errVars, client, concVars, predefined>>

InitNew ==
    /\ Idle
    /\ Unclassified
    /\ nextPtr = FirstPtr
    /\ client = NewClient("test-key", "test-secret", <<>>, <<>>, 1).c
    /\ httpClients = <<[Timeout |-> DefaultTimeout]>>
    /\ clients = <<>>
    /\ procs = <<>>
    /\ predefined = PredefinedErrors

NextNew == New

SpecNew == InitNew /\ [][NextNew]_vars

(***************************************************************************)
(* Properties.                                                             *)
(***************************************************************************)
\* the error the verb (Get/Post/Put/Delete) returned in the finished call:
\* a convenience method wraps it once
VerbErr == IF IsConvenience(call) THEN Unwrap(ret.err) ELSE ret.err

\* a response was received, its body read, and its status is a failure
FailureHandled ==
    /\ pc = "done"
    /\ resp # NoResp
    /\ resp.readOK
    /\ resp.status < 200 \/ resp.status > 299

\* the body is a JSON object whose error keys all have the types of APIError
ParsesAsError(b) ==
    b.form = "object" /\ b.bad \notin {"code", "message", "status_code", "error", "details"}

HasErrorText(b) == b.message # "" \/ b.code # "" \/ b.error # ""

\* C1: a failure response whose body parses as the typed-error shape with
\* message, code or error non-empty is returned as exactly that error; its
\* status_code is the body's when non-zero and the HTTP status otherwise.
C1_DecodedErrorReturned ==
    (FailureHandled /\ ParsesAsError(resp.body) /\ HasErrorText(resp.body)) =>
        /\ VerbErr.kind = "api"
        /\ VerbErr.ptr # 0
        /\ VerbErr.Code = resp.body.code
        /\ VerbErr.Message = resp.body.message
        /\ VerbErr.ErrorMsg = resp.body.error
        /\ VerbErr.Details = resp.body.details
        /\ resp.body.status_code # 0 => VerbErr.StatusCode = resp.body.status_code
        /\ resp.body.status_code = 0 => VerbErr.StatusCode = resp.status

\* a verb returned for HTTP 404 with a body that has a code, details and no status_code
C1_Witness ==
    /\ FailureHandled
    /\ call.op \in Verbs
    /\ resp.status = StatusNotFound
    /\ resp.body = ErrObject("", ErrCodeNotFound, "", 0, SomeDetails, "")
    /\ ret.err.StatusCode = StatusNotFound
    /\ ret.err.Details = SomeDetails

\* the fallback table of the specification
TableCode(status) ==
    CASE status = 400 -> "BAD_REQUEST"
      [] status = 401 -> "INVALID_CREDENTIALS"
      [] status = 403 -> "FORBIDDEN"
      [] status = 404 -> "NOT_FOUND"
      [] status = 402 -> "INSUFFICIENT_BALANCE"
      [] status = 429 -> "RATE_LIMIT_EXCEEDED"
      [] status = 500 -> "INTERNAL_SERVER_ERROR"
      [] status = 503 -> "SERVICE_UNAVAILABLE"
      [] OTHER -> ""

\* C2: a failure response whose body does not parse as the typed-error
\* shape, or parses with message, code and error all empty, yields the
\* synthesized error: status_code = HTTP status, message = "API error:
\* status <status>, body: <raw body>", code from the table, and nothing
\* (status_code, details) taken from the body.
C2_SynthesizedError ==
    (FailureHandled /\ ~(ParsesAsError(resp.body) /\ HasErrorText(resp.body))) =>
        /\ VerbErr.kind = "api"
        /\ VerbErr.ptr # 0
        /\ VerbErr.StatusCode = resp.status
        /\ VerbErr.Code = TableCode(resp.status)
        /\ VerbErr.Message =
             "API error: status " \o ToString(resp.status) \o ", body: " \o Raw(resp.body)
        /\ VerbErr.ErrorMsg = ""
        /\ VerbErr.Details = NoDetails
        /\ resp.body = TextBody /\ resp.status = 500 =>
             VerbErr.Message = "API error: status 500, body: Internal Server Error"
        /\ resp.body = ErrObject("", "", "", 418, SomeDetails, "") /\ resp.status = 401 =>
             VerbErr.Message =
               "API error: status 401, body: {\"status_code\":418,\"details\":{\"field\":\"to\"}}"

\* HTTP 401 answered with a body that carries only status_code 418 and details
C2_Witness ==
    /\ FailureHandled
    /\ resp.status = StatusUnauthorized
    /\ resp.body = ErrObject("", "", "", 418, SomeDetails, "")
    /\ VerbErr.Code = ErrCodeInvalidCredentials
    /\ VerbErr.StatusCode = StatusUnauthorized

\* Error() was applied to a typed error behind a non-nil pointer
ErrorApplied ==
    /\ lastOp = "Error"
    /\ errOut.in.kind = "api"
    /\ ~errOut.panic

\* C3: Error() renders message if non-empty, else error_message if
\* non-empty, else "API error [<code>]: status <status_code>" if code is
\* non-empty, else "API error: status <status_code>"; never the empty text.
C3_ErrorRendering ==
    ErrorApplied =>
        LET e == errOut.in
        IN  /\ e.Message # "" => errOut.val = e.Message
            /\ (e.Message = "" /\ e.ErrorMsg # "") => errOut.val = e.ErrorMsg
            /\ (e.Message = "" /\ e.ErrorMsg = "" /\ e.Code # "") =>
                  errOut.val = "API error [" \o e.Code \o "]: status " \o ToString(e.StatusCode)
            /\ (e.Message = "" /\ e.ErrorMsg = "" /\ e.Code = "") =>
                  errOut.val = "API error: status " \o ToString(e.StatusCode)
            /\ errOut.val # ""
            /\ (e.Message = "" /\ e.ErrorMsg = "" /\ e.Code = "" /\ e.StatusCode = 404) =>
                  errOut.val = "API error: status 404"

\* Error() was applied to an error with both texts, and to one with a code only
C3_Witness ==
    /\ ErrorApplied
    /\ errOut.in.Message = ""
    /\ errOut.in.ErrorMsg = ""
    /\ errOut.in.Code = ErrCodeNotFound
    /\ errOut.val = "API error [NOT_FOUND]: status 404"

\* the server answered the single-message send with HTTP 400 and the body
\* {"message":"Invalid phone number","status_code":400}
InvalidPhoneAnswered ==
    /\ pc = "done"
    /\ call.op \in {"SendMessage", "SendSingleMessage"}
    /\ resp # NoResp
    /\ resp.readOK
    /\ resp.status = 400
    /\ Raw(resp.body) = "{\"message\":\"Invalid phone number\",\"status_code\":400}"

\* C4: for HTTP 400 with body {"message":"Invalid phone number",
\* "status_code":400} the error returned by SendMessage / SendSingleMessage
\* has IsAPIError true, GetStatusCode 400 and the text "Invalid phone
\* number": the predicates see the typed error under the wrapping.
C4_PredicatesSeeTypedError ==
    InvalidPhoneAnswered =>
        /\ IsAPIError(ret.err)
        /\ GetStatusCode(ret.err) = 400
        /\ ErrorText(ret.err) = "Invalid phone number"

\* the container as the call received it
Untouched == result = ContainerOf(call)

\* C5: for a failure status with the body read, the verb returns a non-nil
\* typed API error and the caller's container is not written: no decoding
\* into it is attempted.
C5_FailureLeavesContainer ==
    FailureHandled =>
        /\ VerbErr.kind = "api"
        /\ VerbErr.ptr # 0
        /\ result.attempts = 0
        /\ Untouched

\* a verb with a filled container got HTTP 404 with a body that would decode into it
C5_Witness ==
    /\ FailureHandled
    /\ call.op = "Get"
    /\ call.result.ID = "old"
    /\ resp.status = StatusNotFound
    /\ resp.body = OkObject("msg-123", "sent", "+1234567890", 0, "")
    /\ result.ID = "old"

\* a response was received, its body read, and its status is a success
SuccessHandled ==
    /\ pc = "done"
    /\ resp # NoResp
    /\ resp.readOK
    /\ resp.status >= 200
    /\ resp.status < 300

\* the value the JSON object b carries under key ("" or 0 when absent)
BodyValue(b, key) ==
    CASE key = "id" -> b.id
      [] key = "status" -> b.status
      [] key = "message" -> b.message
      [] key = "to" -> b.to
      [] key = "error" -> b.error
      [] key = "total" -> b.total

\* the JSON object b has no value under key
Absent(b, key) ==
    IF key = "total" THEN b.total = 0 ELSE BodyValue(b, key) = ""

\* the field of container v that takes key
FieldValue(v, key) ==
    CASE key = "id" -> v.ID
      [] key = "status" -> v.Status
      [] key = "message" -> v.Message
      [] key = "to" -> v.To
      [] key = "error" -> v.Error
      [] key = "total" -> v.Total

\* the body cannot be decoded into a container of this type: it is empty,
\* not JSON, not an object, or a key has a type the struct does not take
Undecodable(b, type) ==
    \/ b.form \in {"empty", "text", "array"}
    \/ b.form = "object" /\ b.bad # "" /\ b.bad \in ContainerKeys(type)

\* C6: for a success status, with a container the body is decoded into it
\* and the call returns nil; an empty, invalid or mismatching body gives a
\* decode error that is not a typed API error; without a container the
\* call returns nil and decodes nothing, whatever the body.
C6_SuccessDecoding ==
    SuccessHandled =>
        /\ result.type = "nil" =>
              /\ VerbErr = NilError
              /\ result = NilContainer
        /\ result.type # "nil" =>
              /\ result.attempts = 1
              /\ Undecodable(resp.body, result.type) =>
                    /\ VerbErr.kind \in {"generic", "wrapped"}
                    /\ ~IsAPIError(VerbErr)
              /\ (resp.body.form = "object" /\ ~Undecodable(resp.body, result.type)) =>
                    /\ VerbErr = NilError
                    /\ \A key \in ContainerKeys(result.type) :
                          FieldValue(result, key) =
                             IF Absent(resp.body, key)
                             THEN FieldValue(ContainerOf(call), key)
                             ELSE BodyValue(resp.body, key)

\* an empty 2xx body with a container failed to decode, without a typed error
C6_Witness ==
    /\ SuccessHandled
    /\ call.op = "SendMessage"
    /\ resp.status = 204
    /\ resp.body = EmptyBody
    /\ ret.err.kind = "wrapped"
    /\ ret.response = "nil"

\* the convenience methods
Checked ==
    {"SendSingleMessage", "SendMessage", "SendBulkMessages", "SendTemplateMessage",
     "SendVoiceMessage", "GetMessageStatus", "ListMessages", "GetUserInfo"}

\* the arguments the methods reject, as the specification lists them
Rejected(c) ==
    \/ c.op = "SendSingleMessage" /\ (c.req.nil \/ c.req.To = "" \/ c.req.Message = "")
    \/ c.op = "SendMessage" /\ (c.to = "" \/ c.message = "")
    \/ c.op = "SendBulkMessages" /\ (c.req.nil \/ c.req.Messages = <<>>)
    \/ c.op = "SendTemplateMessage" /\ (c.req.nil \/ c.req.To = "" \/ c.req.TemplateID = "")
    \/ c.op = "SendVoiceMessage"
         /\ (c.req.nil \/ c.req.To = "" \/ (c.req.Message = "" /\ c.req.AudioURL = ""))
    \/ c.op = "GetMessageStatus" /\ c.id = ""

\* the texts of the local validation errors
ValidationTexts ==
    {"request cannot be nil", "recipient phone number is required",
     "message text is required", "at least one message is required",
     "template ID is required", "either message text or audio URL is required",
     "message ID is required"}

IsValidationError(e) == e.kind = "generic" /\ e.text \in ValidationTexts

\* the method rejected its arguments without any request
RejectedLocally ==
    /\ pc = "done"
    /\ ret.response = "nil"
    /\ IsValidationError(ret.err)
    /\ wire = <<>>

\* C7 as stated (for calls made with a non-nil context): a convenience method
\* returns a local validation error with a nil response and issues no
\* request exactly for the listed arguments; in every other case validation
\* passes and exactly one request is dispatched.
C7_ExactlyOneRequestOtherwise ==
    (pc # "idle" /\ call.op \in Checked /\ call.ctx # "nil") =>
        IF Rejected(call) THEN RejectedLocally
        ELSE /\ ~IsValidationError(ret.err)
             /\ Len(wire) = 1

\* the request of a call that passed validation cannot be constructed: the
\* body is not serializable, the context is nil or the URL does not parse
ConstructionFails(c) ==
    \/ c.ctx = "nil"
    \/ c.op \in {"SendSingleMessage", "SendBulkMessages", "SendTemplateMessage", "SendVoiceMessage"}
         /\ c.req.Params = "chan"
    \/ c.op = "GetMessageStatus" /\ c.id = "%zz"

\* C7 amended: a convenience method returns a local validation error, a nil
\* response and issues no request exactly for the listed arguments; in every
\* other case validation passes and exactly one request is dispatched,
\* unless the request cannot be constructed: then none is dispatched and the
\* call returns a wrapped construction error with a nil response.
C7_ValidationExactlyWhen ==
    (pc # "idle" /\ call.op \in Checked) =>
        IF Rejected(call) THEN RejectedLocally
        ELSE /\ ~IsValidationError(ret.err)
             /\ ~ConstructionFails(call) => Len(wire) = 1
             /\ ConstructionFails(call) =>
                   /\ wire = <<>>
                   /\ pc = "done"
                   /\ ret.response = "nil"
                   /\ ret.err.kind = "wrapped"
                   /\ ret.err.inner.kind = "wrapped"

\* a bulk list with an empty item passed validation and its request was dispatched
C7_Witness ==
    /\ pc = "inflight"
    /\ call.op = "SendBulkMessages"
    /\ ~call.req.nil
    /\ Len(call.req.Messages) = 2
    /\ call.req.Messages[1].To = ""
    /\ Len(wire) = 1
    /\ wire[1].url = "https://panel.signalads.com/api/v1/send-message/bulk"

\* a helper was applied to a typed error behind a non-nil pointer
TypedApplied(op) ==
    /\ lastOp = op
    /\ errOut.in.kind = "api"
    /\ errOut.in.ptr # 0
    /\ ~errOut.panic

\* C8: for a typed API error, IsNotFound iff status 404 or code NOT_FOUND,
\* IsUnauthorized iff 401 or INVALID_CREDENTIALS, IsRateLimited iff 429 or
\* RATE_LIMIT_EXCEEDED, IsInsufficientBalance iff 402 or
\* INSUFFICIENT_BALANCE, IsBadRequest iff 400 or BAD_REQUEST.
C8_CategoryPredicates ==
    /\ TypedApplied("IsNotFound") =>
          (errOut.val <=> (errOut.in.StatusCode = 404 \/ errOut.in.Code = "NOT_FOUND"))
    /\ TypedApplied("IsUnauthorized") =>
          (errOut.val <=> (errOut.in.StatusCode = 401 \/ errOut.in.Code = "INVALID_CREDENTIALS"))
    /\ TypedApplied("IsRateLimited") =>
          (errOut.val <=> (errOut.in.StatusCode = 429 \/ errOut.in.Code = "RATE_LIMIT_EXCEEDED"))
    /\ TypedApplied("IsInsufficientBalance") =>
          (errOut.val <=> (errOut.in.StatusCode = 402 \/ errOut.in.Code = "INSUFFICIENT_BALANCE"))
    /\ TypedApplied("IsBadRequest") =>
          (errOut.val <=> (errOut.in.StatusCode = 400 \/ errOut.in.Code = "BAD_REQUEST"))

\* IsInsufficientBalance held of an error by its code alone
C8_Witness ==
    /\ TypedApplied("IsInsufficientBalance")
    /\ errOut.in.Code = ErrCodeInsufficientBalance
    /\ errOut.in.StatusCode = 0
    /\ errOut.val

CategoryHelpers ==
    {"IsNotFound", "IsUnauthorized", "IsRateLimited", "IsInsufficientBalance", "IsBadRequest"}

\* a helper was applied to an error value whose dynamic type is not *APIError
OtherApplied(op) ==
    /\ lastOp = op
    /\ errOut.in.kind # "api"

\* C9: IsAPIError is true iff the value is a typed API error; for every
\* other value, nil included, IsAPIError, IsErrorCode and the category
\* predicates are false, GetStatusCode is 0 and GetErrorCode is ""; for a
\* typed error the getters return its fields and IsErrorCode(e, c) holds iff
\* e.code = c exactly.
C9_TypedOnly ==
    /\ lastOp = "IsAPIError" => (errOut.val <=> errOut.in.kind = "api")
    /\ lastOp \in Helpers \ {"WrapError", "Error"} /\ errOut.in.kind # "api" => ~errOut.panic
    /\ OtherApplied("IsAPIError") => errOut.val = FALSE
    /\ OtherApplied("IsErrorCode") => errOut.val = FALSE
    /\ \A op \in CategoryHelpers : OtherApplied(op) => errOut.val = FALSE
    /\ OtherApplied("GetStatusCode") => errOut.val = 0
    /\ OtherApplied("GetErrorCode") => errOut.val = ""
    /\ TypedApplied("GetStatusCode") => errOut.val = errOut.in.StatusCode
    /\ TypedApplied("GetErrorCode") => errOut.val = errOut.in.Code
    /\ TypedApplied("IsErrorCode") => (errOut.val <=> errOut.in.Code = errOut.arg)

\* the helpers were applied to an error that wraps a typed error: IsAPIError is false
C9_Witness ==
    /\ OtherApplied("IsAPIError")
    /\ errOut.in.kind = "wrapped"
    /\ errOut.in.inner.kind = "api"
    /\ errOut.val = FALSE

\* WrapError was applied
Wrapped == lastOp = "WrapError"

\* C10: WrapError(nil, s) is nil; WrapError(e, s) of a typed error is the
\* very same value with its fields unchanged, so wrapping a result of
\* WrapError again returns it; WrapError(g, s) of any other error is a new
\* typed error with message = text of g, status_code = s and empty code,
\* error_message and details.
C10_WrapError ==
    Wrapped =>
        /\ ~errOut.panic
        /\ errOut.val.kind = "api"
        /\ errOut.in.kind = "nil" => errOut.val.ptr = 0
        /\ errOut.in.kind = "api" => errOut.val = errOut.in
        /\ errOut.passed => errOut.val = errOut.in
        /\ errOut.in.kind \in {"generic", "wrapped"} =>
              /\ errOut.val.ptr = nextPtr - 1
              /\ errOut.val.ptr > FirstPtr
              /\ errOut.val.Message = errOut.in.text
              /\ errOut.val.StatusCode = errOut.arg
              /\ errOut.val.Code = ""
              /\ errOut.val.ErrorMsg = ""
              /\ errOut.val.Details = NoDetails
        /\ (errOut.in = GenericError("test error") /\ errOut.arg = 500) =>
              /\ errOut.val.Message = "test error"
              /\ errOut.val.StatusCode = 500

\* a result of WrapError of a plain error was wrapped again with another status
C10_Witness ==
    /\ Wrapped
    /\ errOut.passed
    /\ errOut.in.ptr > FirstPtr
    /\ errOut.in.Message = "test error"
    /\ errOut.in.StatusCode = 500
    /\ errOut.arg = 404
    /\ errOut.val = errOut.in

\* the call went into the pipeline and returned without a response: the
\* request could not be built, or c.httpClient.Do returned an error
EarlyFailure ==
    /\ pc = "done"
    /\ resp = NoResp
    /\ Validate(call) = ""

\* the texts doRequest puts in front of the errors it returns
RequestPrefixes ==
    {"invalid URL", "failed to marshal request body", "failed to create request",
     "request failed"}

\* C11: a failure before a response is available (URL parse, serialization
\* of the body, request creation, an error of the transport including
\* cancellation and timeout) makes the verb return a non-nil error that is
\* not a typed API error (IsAPIError false, GetStatusCode 0), and the
\* caller's container is left as it was.
C11_EarlyFailureNotTyped ==
    EarlyFailure =>
        /\ VerbErr.kind = "wrapped"
        /\ \E prefix \in RequestPrefixes :
               VerbErr.text = prefix \o ": " \o ErrorText(VerbErr.inner)
        /\ ~IsAPIError(VerbErr)
        /\ GetStatusCode(VerbErr) = 0
        /\ result = ContainerOf(call)
        /\ (wire = <<>>) = (VerbErr.text \notin
                              {"request failed: " \o ErrorText(VerbErr.inner)})

\* a Get with query parameters on a path that does not parse returns the
\* URL error and leaves the container the caller had filled
C11_Witness ==
    /\ EarlyFailure
    /\ call.op = "Get"
    /\ call.endpoint.path = "/%zz"
    /\ call.query # NoQuery
    /\ VerbErr.text = "invalid URL: parse: invalid URL escape"
    /\ result.ID = "old"

\* the finished call failed: the request could not be built, the transport
\* returned an error, the body could not be read, the status is a failure,
\* or the body does not decode into the container
Failed ==
    /\ pc = "done"
    /\ Validate(call) = ""
    /\ \/ resp = NoResp
       \/ ~resp.readOK
       \/ IsFailureStatus(resp.status)
       \/ /\ ContainerOf(call) # NilContainer
          /\ Undecodable(resp.body, ContainerOf(call).type)

\* C12: a verb or convenience call hands at most one request to the
\* transport, and every failure (construction, transport, body read,
\* failure status, decode) is returned by that call as a non-nil error,
\* with a nil response from a convenience method: nothing is sent again
\* and no failure becomes a nil error.
C12_AtMostOneRequestNoRetry ==
    /\ Len(wire) <= 1
    /\ pc = "idle" => wire = <<>>
    /\ Failed =>
           /\ ret.returned
           /\ ret.err.kind # "nil"
           /\ ~IsNilPtr(ret.err)
           /\ IsConvenience(call) => ret.response = "nil"

\* the body of a 200 response could not be read: one request was sent and
\* the call returned the read error
C12_Witness ==
    /\ Failed
    /\ Len(wire) = 1
    /\ resp # NoResp
    /\ resp.status = StatusOK
    /\ ~resp.readOK
    /\ VerbErr.text = "failed to read response body: unexpected EOF"

\* the caller's context was done before the call returned: canceled from
\* the start, or its deadline elapsed while the call was in flight
Interrupted == pc = "done" /\ ctxDone

\* C13: a call whose context is canceled, or whose deadline elapses before
\* the response has been received in full, does not block: it returns, and
\* what it returns is a non-nil error that is not a typed API error; so
\* does a call made with a context that is already canceled.
C13_CancellationAborts ==
    /\ [](Interrupted =>
            /\ ret.returned
            /\ ret.err.kind \in {"generic", "wrapped"}
            /\ VerbErr.kind # "api"
            /\ ~IsAPIError(VerbErr))
    /\ (pc = "inflight" /\ call.ctx \in {"canceled", "deadline"}) ~> (pc = "done")

\* the deadline elapsed while the request was in flight and the call
\* returned the error of the transport
C13_Witness ==
    /\ Interrupted
    /\ call.ctx = "deadline"
    /\ Len(wire) = 1
    /\ resp = NoResp
    /\ VerbErr.inner.inner = GenericError("context deadline exceeded")

\* every cause the transport gives for an error of Do
Causes ==
    {"context canceled", "context deadline exceeded", "connection refused",
     "Client.Timeout exceeded while awaiting headers"}

\* the address of the typed error frame f returned, 0 when it returned none
PtrOf(f) == IF f.ret.verb.kind = "api" THEN f.ret.verb.ptr ELSE 0

\* the frames a call with the arguments, the context state and the response
\* of f ends in when it runs alone on the client
Alone(f) ==
    LET e == [Enter(f.call) EXCEPT !.ctxDone = f.ctxDone]
    IN  IF e.pc = "done" THEN {e}
        ELSE IF f.resp = NoResp THEN {Fail(e, cause) : cause \in Causes}
        ELSE {Receive(e, f.resp.status, f.resp.body, f.resp.readOK, PtrOf(f))}

\* C14: in every interleaving of concurrent calls on one Client no step
\* of a call writes the client's base URL, key, secret, transport handle or
\* Messages, and each call ends as it would alone with its own arguments
\* and its own response; typed errors of different calls are different
\* values.
C14_CallsDoNotInterfere ==
    /\ [][client' = client /\ httpClients' = httpClients]_vars
    /\ [](\A p \in Procs :
              procs[p].pc = "done" =>
                  /\ procs[p] \in Alone(procs[p])
                  /\ \A q \in Procs \ {p} :
                         procs[q].pc = "done" /\ PtrOf(procs[p]) # 0 => PtrOf(procs[q]) # PtrOf(procs[p]))

\* two calls of different methods have both returned, one with its decoded
\* response and one with the typed error of its own 404
C14_Witness ==
    /\ procs # <<>>
    /\ \E p, q \in Procs :
           /\ procs[p].pc = "done"
           /\ procs[q].pc = "done"
           /\ procs[p].call.op = "SendMessage"
           /\ procs[p].ret.err = NilError
           /\ procs[p].result.ID = "msg-123"
           /\ procs[q].call.op = "GetMessageStatus"
           /\ procs[q].resp # NoResp
           /\ procs[q].resp.status = StatusNotFound
           /\ procs[q].ret.verb.kind = "api"
           /\ procs[q].result.ID = ""

\* context.DeadlineExceeded, the sentinel value of package context
DeadlineExceeded == GenericError("context deadline exceeded")

\* the deadline of the context elapsed while a convenience method had its
\* request in flight
DeadlineElapsed ==
    /\ pc = "done"
    /\ IsConvenience(call)
    /\ call.ctx = "deadline"
    /\ ctxDone

\* C15: when the deadline of the caller's context elapses during a call,
\* the error the convenience method returns is the value
\* context.DeadlineExceeded itself (err == context.DeadlineExceeded).
C15_DeadlineErrorIsSentinel ==
    DeadlineElapsed => ret.err = DeadlineExceeded

\* a request was handed to the transport
Dispatched == Len(wire) = 1

\* the HTTP method each operation sends with
MethodOf(op) ==
    CASE op \in {"Get", "ListMessages", "GetMessageStatus", "GetUserInfo"} -> "GET"
      [] op = "Put" -> "PUT"
      [] op = "Delete" -> "DELETE"
      [] OTHER -> "POST"

\* C16: a request made through Get, Post, Put or Delete uses the method
\* GET, POST, PUT or DELETE and carries Content-Type and Accept
\* application/json, X-API-Key the configured key and X-API-Secret the
\* configured secret, with or without a body; Get and Delete send no body.
C16_MethodAndHeaders ==
    Dispatched =>
        /\ wire[1].method = MethodOf(call.op)
        /\ wire[1].headers.ContentType = "application/json"
        /\ wire[1].headers.Accept = "application/json"
        /\ wire[1].headers.XAPIKey = client.apiKey
        /\ wire[1].headers.XAPISecret = client.apiSecret
        /\ client.apiKey \in {"test-key", "api-key"}
        /\ client.apiSecret \in {"test-secret", "api-secret"}
        /\ MethodOf(call.op) \in {"GET", "DELETE"} => wire[1].body = NilReq
        /\ call.op \in {"Post", "Put"} =>
               wire[1].body = IF call.body = "nil" THEN NilReq
                              ELSE [nil |-> FALSE, value |-> call.body]

\* a Delete on the client built with the keys api-key and api-secret is on
\* the wire: no body, and all four headers
C16_Witness ==
    /\ Dispatched
    /\ call.op = "Delete"
    /\ wire[1].method = "DELETE"
    /\ wire[1].body = NilReq
    /\ wire[1].headers = [ContentType |-> "application/json", Accept |-> "application/json",
                          XAPIKey |-> "api-key", XAPISecret |-> "api-secret"]

\* the endpoint string and the query parameters the call hands to doRequest
PathOf(c) ==
    CASE c.op = "Get" -> EndpointText(c.endpoint)
      [] c.op \in {"Post", "Put", "Delete"} -> c.endpoint
      [] c.op \in {"SendSingleMessage", "SendMessage"} -> "/send-message/single"
      [] c.op = "SendBulkMessages" -> "/send-message/bulk"
      [] c.op = "SendTemplateMessage" -> "/send-message/template"
      [] c.op = "SendVoiceMessage" -> "/send-message/voice"
      [] c.op = "ListMessages" -> "/messages"
      [] c.op = "GetMessageStatus" -> "/messages/" \o c.id \o "/status"
      [] c.op = "GetUserInfo" -> "/user/info"

QueryOf(c) ==
    CASE c.op = "Get" -> c.query
      [] c.op = "ListMessages" -> ListQuery(c.params)
      [] OTHER -> NoQuery

\* the pairs of the query string the path of the call has of its own
OwnQuery(c) ==
    IF c.op = "Get" THEN {c.endpoint.rawQuery[i] : i \in 1..Len(c.endpoint.rawQuery)} ELSE {}

Keys(q) == {kv[1] : kv \in q}

\* C17: the URL of a request is the base URL followed by the path as it
\* is.  Without query parameters it is exactly that concatenation.  With
\* query parameters every supplied key is in the query string once, with
\* the supplied value, in the place of any value the path's own query
\* string had for it, and the other keys of the path's query string stay.
C17_RequestURL ==
    Dispatched =>
        /\ QueryOf(call) = NoQuery => wire[1].url = client.baseURL \o PathOf(call)
        /\ QueryOf(call) # NoQuery =>
               /\ \A kv \in QueryOf(call) :
                      {x \in wire[1].query : x[1] = kv[1]} = {kv}
               /\ \A kv \in OwnQuery(call) :
                      kv[1] \notin Keys(QueryOf(call)) => kv \in wire[1].query
               /\ Keys(wire[1].query) = Keys(QueryOf(call)) \cup Keys(OwnQuery(call))
        /\ (/\ call.op = "Get"
            /\ client.baseURL = ServerURL
            /\ call.endpoint = Endpoint("/test", <<<<"test", "old">>, <<"keep", "1">>>>))
           => wire[1].url = CASE call.query = NoQuery ->
                                   "http://127.0.0.1:8080//test?test=old&keep=1"
                              [] call.query = {<<"test", "value">>} ->
                                   "http://127.0.0.1:8080//test?keep=1&test=value"
                              [] OTHER ->
                                   "http://127.0.0.1:8080//test?keep=1&q=a+b&test=value"

\* a Get with the parameters test and q on a path that has test and keep in
\* its own query string: test is replaced, keep stays, q is added
C17_Witness ==
    /\ Dispatched
    /\ call.op = "Get"
    /\ call.endpoint.rawQuery = <<<<"test", "old">>, <<"keep", "1">>>>
    /\ call.query = {<<"q", "a b">>, <<"test", "value">>}
    /\ wire[1].query = {<<"keep", "1">>, <<"q", "a b">>, <<"test", "value">>}
    /\ wire[1].url = "http://127.0.0.1:8080//test?keep=1&q=a+b&test=value"

\* the timeout client c observes on the heap: that of the http.Client it
\* holds, -1 when it holds the nil pointer
ObservedTimeout(c, heap) ==
    IF c.httpClient = 0 THEN -1 ELSE heap[c.httpClient].Timeout

\* C18: the configuration of a Client is owned by it alone: constructing a
\* Client, with any options, changes neither the timeout or the transport
\* an earlier Client observes nor the http.Client object the caller holds.
C18_ConstructionIsolated ==
    [][/\ \A i \in 1..Len(clients) :
             /\ clients'[i] = clients[i]
             /\ ObservedTimeout(clients[i].c, httpClients')
                    = ObservedTimeout(clients[i].c, httpClients)
       /\ httpClients'[CustomClient] = httpClients[CustomClient]]_vars

\* C19: NewClient(k, s) without options gives the default base URL, a
\* timeout of 30 seconds, the key k, the secret s and a Messages service
\* bound to that client; NewClient(k, s, WithBaseURL(u), WithTimeout(t))
\* gives base URL u and timeout t with the same credentials.
C19_NewClientDefaultsAndOptions ==
    \A i \in 1..Len(clients) :
        LET a == clients[i].args
            c == clients[i].c
        IN  /\ c.apiKey = a.apiKey
            /\ c.apiSecret = a.apiSecret
            /\ c.Messages.client = c.addr
            /\ c.addr = i
            /\ a.opts = <<>> =>
                   /\ c.baseURL = "https://panel.signalads.com/api/v1"
                   /\ c.httpClient \notin {0, CustomClient}
                   /\ ObservedTimeout(c, httpClients) = 30
            /\ a.opts = <<WithBaseURL(ServerURL), WithTimeout(60)>> =>
                   /\ c.baseURL = ServerURL
                   /\ ObservedTimeout(c, httpClients) = 60

\* a client built without options and a client built with WithBaseURL and
\* WithTimeout from other credentials
C19_Witness ==
    /\ Len(clients) = 2
    /\ clients[1].args = [apiKey |-> "test-key", apiSecret |-> "test-secret", opts |-> <<>>]
    /\ ObservedTimeout(clients[1].c, httpClients) = DefaultTimeout
    /\ clients[2].args = [apiKey |-> "api-key", apiSecret |-> "api-secret",
                          opts |-> <<WithBaseURL(ServerURL), WithTimeout(60)>>]
    /\ clients[2].c.baseURL = ServerURL
    /\ clients[2].c.apiKey = "api-key"
    /\ ObservedTimeout(clients[2].c, httpClients) = 60

\* a convenience method got an error from the verb it called
PipelineError ==
    /\ pc = "done"
    /\ IsConvenience(call)
    /\ ret.verb.kind # "nil"

\* the text each convenience method puts in front of the error of the verb
PrefixOf(op) ==
    CASE op \in {"SendSingleMessage", "SendMessage"} -> "failed to send message"
      [] op = "SendBulkMessages" -> "failed to send bulk messages"
      [] op = "SendTemplateMessage" -> "failed to send template message"
      [] op = "SendVoiceMessage" -> "failed to send voice message"
      [] op = "ListMessages" -> "failed to list messages"
      [] op = "GetMessageStatus" -> "failed to get message status"
      [] op = "GetUserInfo" -> "failed to get user info"

Listed == pc # "idle" /\ call.op = "ListMessages" /\ call.ctx # "nil"

\* page and per_page of the call, as they are to appear in the query string
PageText == IF ~call.params.nil /\ call.params.Page > 0 THEN "page=1" ELSE ""

PerPageText == IF ~call.params.nil /\ call.params.PerPage > 0 THEN "per_page=10" ELSE ""

\* C21: ListMessages issues one GET to /messages.  Its query has page
\* exactly when params is not nil and Page > 0, and per_page exactly when
\* params is not nil and PerPage > 0, each with its decimal value; with nil
\* params, or with both values at most 0, the URL has no query string.
C21_ListMessagesQuery ==
    Listed =>
        /\ Len(wire) = 1
        /\ wire[1].method = "GET"
        /\ wire[1].url = client.baseURL \o "/messages"
               \o (IF PageText = "" /\ PerPageText = "" THEN "" ELSE "?")
               \o PageText
               \o (IF PageText # "" /\ PerPageText # "" THEN "&" ELSE "")
               \o PerPageText
        /\ wire[1].query = (IF PageText = "" THEN {} ELSE {<<"page", "1">>})
                           \cup (IF PerPageText = "" THEN {} ELSE {<<"per_page", "10">>})

\* ListMessages with Page 1 and PerPage 10 is on the wire with both in its
\* query string
C21_Witness ==
    /\ Listed
    /\ call.params = [nil |-> FALSE, Page |-> 1, PerPage |-> 10]
    /\ wire[1].url = DefaultBaseURL \o "/messages?page=1&per_page=10"

(***************************************************************************)
(* C22                                                                     *)
(***************************************************************************)
\* C22: in every reachable state the five predefined errors have the code
\* and status INVALID_CREDENTIALS 401, NOT_FOUND 404, RATE_LIMIT_EXCEEDED
\* 429, INSUFFICIENT_BALANCE 402 and INVALID_PHONE_NUMBER 400; each renders
\* a non-empty text and satisfies its category predicate, and no operation
\* of the library has modified any of them.
C22_PredefinedErrors ==
    /\ <<predefined[1].Code, predefined[1].StatusCode>> = <<"INVALID_CREDENTIALS", 401>>
    /\ <<predefined[2].Code, predefined[2].StatusCode>> = <<"NOT_FOUND", 404>>
    /\ <<predefined[3].Code, predefined[3].StatusCode>> = <<"RATE_LIMIT_EXCEEDED", 429>>
    /\ <<predefined[4].Code, predefined[4].StatusCode>> = <<"INSUFFICIENT_BALANCE", 402>>
    /\ <<predefined[5].Code, predefined[5].StatusCode>> = <<"INVALID_PHONE_NUMBER", 400>>
    /\ \A a \in DOMAIN predefined : ErrorText(predefined[a]) # ""
    /\ IsUnauthorized(predefined[1])
    /\ IsNotFound(predefined[2])
    /\ IsRateLimited(predefined[3])
    /\ IsInsufficientBalance(predefined[4])
    /\ IsBadRequest(predefined[5])
    /\ predefined = PredefinedErrors

\* WrapError was handed ErrNotFound and returned it, the same pointer
C22_Witness ==
    /\ lastOp = "WrapError"
    /\ errOut.in = ErrNotFound
    /\ errOut.arg = StatusInternalServerError
    /\ errOut.val = predefined[2]
    /\ errOut.val.ptr = 2

(***************************************************************************)
(* C23                                                                     *)
(***************************************************************************)
\* the call of frame f got a response and returned a typed error for it
Classified(f) == f.pc = "done" /\ f.resp # NoResp /\ f.ret.verb.kind = "api"

\* the fields of a typed error
FieldsOf(e) == <<e.Code, e.Message, e.ErrorMsg, e.StatusCode, e.Details>>

ReadFailed == pc = "done" /\ resp # NoResp /\ ~resp.readOK

\* C24: the whole body is read before the status is looked at.  When the
\* read fails the call returns the read error, which is not a typed API
\* error, for every status, failure statuses included, and the container
\* is not written; a typed error for a response is returned only after its
\* body was read to the end.
C24_BodyReadBeforeStatus ==
    /\ ReadFailed =>
           /\ VerbErr = WrapF("failed to read response body", GenericError("unexpected EOF"))
           /\ ~IsAPIError(VerbErr)
           /\ ~IsAPIError(ret.err)
           /\ ret.err.kind # "nil"
           /\ result.attempts = 0
           /\ Untouched
    /\ (pc = "done" /\ resp # NoResp /\ VerbErr.kind = "api") => resp.readOK

\* the body of a 500 response could not be read: Post returned the read
\* error and left the container the caller had filled
C24_Witness ==
    /\ ReadFailed
    /\ call.op = "Post"
    /\ resp.status = StatusInternalServerError
    /\ VerbErr.kind = "wrapped"
    /\ result # NilContainer
    /\ result.ID = "old"

(***************************************************************************)
(* C25                                                                     *)
(***************************************************************************)
\* the paths of response handling: the read of the body fails, a failure
\* status, a success that does not decode, a success
PathTaken ==
    CASE ~resp.readOK -> "read"
      [] IsFailureStatus(resp.status) -> "status"
      [] VerbErr.kind # "nil" -> "decode"
      [] OTHER -> "success"

\* C25: every response the transport handed over has its body closed
\* exactly once when the verb has returned, on every path of response
\* handling; a call that failed before it got a response has no response,
\* so nothing is left open.
C25_BodyClosedOnce ==
    /\ pc = "done" /\ resp # NoResp => resp.closed = 1
    /\ pc = "done" /\ resp = NoResp => ret.err.kind # "nil"
    /\ pc # "done" => resp = NoResp

\* a 200 response whose body does not decode into the container: the error
\* is returned and the body was closed
C25_Witness ==
    /\ pc = "done"
    /\ resp # NoResp
    /\ PathTaken = "decode"
    /\ resp.status = StatusOK
    /\ resp.closed = 1

(***************************************************************************)
(* C26                                                                     *)
(***************************************************************************)
\* the statuses with a category predicate, each with its code and predicate
Categories ==
    {<<400, "BAD_REQUEST", "IsBadRequest">>,
     <<401, "INVALID_CREDENTIALS", "IsUnauthorized">>,
     <<402, "INSUFFICIENT_BALANCE", "IsInsufficientBalance">>,
     <<404, "NOT_FOUND", "IsNotFound">>,
     <<429, "RATE_LIMIT_EXCEEDED", "IsRateLimited">>}

\* the category predicate of that name applied to e
Category(name, e) ==
    CASE name = "IsBadRequest" -> IsBadRequest(e)
      [] name = "IsUnauthorized" -> IsUnauthorized(e)
      [] name = "IsInsufficientBalance" -> IsInsufficientBalance(e)
      [] name = "IsNotFound" -> IsNotFound(e)
      [] name = "IsRateLimited" -> IsRateLimited(e)

\* the error returned for a failure response is the one the body carries
BodyUsed == FailureHandled /\ ParsesAsError(resp.body) /\ HasErrorText(resp.body)

\* C26: for a failure response with status 400, 401, 402, 404 or 429 whose
\* error the pipeline synthesizes, the matching category predicate holds
\* of the returned error through its status_code and through its code.
\* When the error of the body is used, the predicate is decided by the
\* code of the body and its non-zero status_code alone: HTTP 404 with the
\* body message "x", status_code 400 gives IsNotFound false and
\* IsBadRequest true.
C26_CategoryOfResponse ==
    \A m \in Categories :
        /\ (FailureHandled /\ ~BodyUsed /\ resp.status = m[1]) =>
               /\ VerbErr.StatusCode = m[1]
               /\ VerbErr.Code = m[2]
               /\ Category(m[3], VerbErr)
        /\ (BodyUsed /\ resp.body.status_code # 0) =>
               (Category(m[3], VerbErr)
                   <=> (resp.body.code = m[2] \/ resp.body.status_code = m[1]))
        /\ (/\ BodyUsed
            /\ resp.status = 404
            /\ resp.body = ErrObject("x", "", "", 400, NoDetails, ""))
           => ~IsNotFound(VerbErr) /\ IsBadRequest(VerbErr)

\* HTTP 404 answered with the body message "x", status_code 400: the
\* returned error is a bad request and not a not-found
C26_Witness ==
    /\ BodyUsed
    /\ resp.status = 404
    /\ resp.body = ErrObject("x", "", "", 400, NoDetails, "")
    /\ VerbErr.StatusCode = 400
    /\ ~IsNotFound(VerbErr)
    /\ IsBadRequest(VerbErr)

(***************************************************************************)
(* C27                                                                     *)
(***************************************************************************)
\* WrapError was applied to an error that wraps a typed API error
WrappedTyped ==
    /\ lastOp = "WrapError"
    /\ errOut.in.kind = "wrapped"
    /\ errOut.in.inner.kind = "api"

\* C27: WrapError looks at the outermost error value only and follows no
\* unwrap chain.  For an error e that wraps a typed API error t, as the
\* convenience methods return for a failure status, WrapError(e, s) is
\* not t: it is a new typed error with message = the whole text of e,
\* prefix included, status_code = s and an empty code, so the code, the
\* status_code and the details of t are lost.
C27_WrapErrorOutermostOnly ==
    WrappedTyped =>
        /\ ~errOut.panic
        /\ errOut.val # errOut.in.inner
        /\ errOut.val.ptr # errOut.in.inner.ptr
        /\ errOut.val.ptr \notin DOMAIN predefined
        /\ errOut.val.Message = errOut.in.text
        /\ errOut.val.StatusCode = errOut.arg
        /\ errOut.val.Code = ""
        /\ errOut.val.ErrorMsg = ""
        /\ errOut.val.Details = NoDetails
        /\ errOut.in = WrapF("failed to send message", ErrNotFound) =>
               errOut.val.Message = "failed to send message: Resource not found"
        /\ errOut.in.inner.Details = SomeDetails =>
               errOut.val.Message = "failed to get message status: API error [NOT_FOUND]: status 404"

\* the wrapped 404 with details was given to WrapError with status 500: the
\* result has the text, status 500, no code and no details
C27_Witness ==
    /\ WrappedTyped
    /\ errOut.in.inner.Code = ErrCodeNotFound
    /\ errOut.in.inner.Details = SomeDetails
    /\ errOut.arg = StatusInternalServerError
    /\ errOut.val.StatusCode = StatusInternalServerError
    /\ errOut.val.Code = ""
    /\ errOut.val.Details = NoDetails
    /\ ~IsNotFound(errOut.val)

(***************************************************************************)
(* C28                                                                     *)
(***************************************************************************)
\* the result of WrapError(nil, s) is held in an error variable
AbsentPassed == lastOp = "PassOn" /\ errOut.in.kind = "nil"

\* a helper was applied to that error variable
AbsentApplied(op) == lastOp = op /\ errOut.passed /\ IsNilPtr(errOut.in)

\* C28: the absent result of WrapError(nil, s), stored in an error variable
\* and passed on, behaves as an absent error: it compares equal to nil,
\* IsAPIError of it is false, and GetStatusCode, GetErrorCode and the
\* category predicates return 0, "" and false without a fault.
C28_AbsentResultIsAbsent ==
    /\ AbsentPassed => errIn.kind = "nil"
    /\ \A op \in Helpers \ {"WrapError", "Error"} :
           AbsentApplied(op) =>
               /\ ~errOut.panic
               /\ errOut.val = CASE op = "GetStatusCode" -> 0
                                 [] op = "GetErrorCode" -> ""
                                 [] OTHER -> FALSE

(***************************************************************************)
(* C29                                                                     *)
(***************************************************************************)
\* GetMessageStatus was called with a context and a non-empty id
Asked == pc # "idle" /\ call.op = "GetMessageStatus" /\ call.id # "" /\ call.ctx # "nil"

RECURSIVE Split(_, _)
\* the pieces of str between the separators
Split(str, sep) ==
    LET c == Cut(str, sep)
    IN  IF c.found THEN <<c.before>> \o Split(c.after, sep) ELSE <<str>>

HexDigits ==
    {"0", "1", "2", "3", "4", "5", "6", "7", "8", "9",
     "a", "b", "c", "d", "e", "f", "A", "B", "C", "D", "E", "F"}

RECURSIVE ValidEscapes(_)
\* every % of str is followed by two hexadecimal digits
ValidEscapes(str) ==
    IF str = "" THEN TRUE
    ELSE IF Head(str) # "%" THEN ValidEscapes(Tail(str))
    ELSE /\ Len(str) >= 3
         /\ SubSeq(str, 2, 2) \in HexDigits
         /\ SubSeq(str, 3, 3) \in HexDigits
         /\ ValidEscapes(SubSeq(str, 4, Len(str)))

\* the id has none of the characters that end a path segment or the path
Segment(id) ==
    ~Cut(id, "/").found /\ ~Cut(id, "?").found /\ ~Cut(id, "#").found

\* the request goes to the path of the base URL followed by the segments
\* messages, id and status, with no query
Targets(url, id) ==
    /\ Split(ParseURL(url).path, "/")
         = Split(ParseURL(client.baseURL).path, "/") \o <<"messages", id, "status">>
    /\ ParseURL(url).rawQuery = ""

Configure(cfg, o) ==
    IF o.opt = "WithBaseURL" THEN [cfg EXCEPT !.baseURL = o.baseURL]
    ELSE IF o.opt = "WithHTTPClient" THEN [cfg EXCEPT !.httpClient = o.httpClient]
    ELSE IF cfg.httpClient = 0 THEN cfg
    ELSE [cfg EXCEPT !.heap = [a \in DOMAIN cfg.heap |->
                                 IF a = cfg.httpClient THEN [Timeout |-> o.timeout]
                                 ELSE cfg.heap[a]]]

RECURSIVE Folded(_, _)
\* the left fold of the options over cfg: the last option acts on what the
\* options before it left
Folded(cfg, opts) ==
    IF opts = <<>> THEN cfg
    ELSE Configure(Folded(cfg, SubSeq(opts, 1, Len(opts) - 1)), opts[Len(opts)])

\* the defaults of a client constructed on the heap: the default base URL
\* and a new http.Client with the default timeout
Defaults(heap) ==
    [baseURL |-> "https://panel.signalads.com/api/v1", httpClient |-> Len(heap) + 1,
     heap |-> Append(heap, [Timeout |-> 30])]

\* C30: NewClient applies its options in argument order, each to the state
\* left by the previous ones, before it binds the Messages service: the
\* configuration is the left fold of the options over the defaults.
\* WithTimeout(t) followed by WithHTTPClient(h) leaves the client using h
\* with h's own timeout, WithHTTPClient(h) followed by WithTimeout(t) sets
\* h's timeout to t, and WithTimeout on a nil transport handle changes
\* nothing.
C30_OptionsLeftFold ==
    [][Len(clients') = Len(clients) + 1 =>
         LET new == clients'[Len(clients')]
             opts == new.args.opts
             c == new.c
             fresh == Len(httpClients) + 1
         IN  /\ Folded(Defaults(httpClients), opts)
                  = [baseURL |-> c.baseURL, httpClient |-> c.httpClient,
                     heap |-> httpClients']
             /\ c.Messages.client = c.addr
             /\ opts = <<WithTimeout(60), WithHTTPClient(CustomClient)>> =>
                    /\ c.httpClient = CustomClient
                    /\ ObservedTimeout(c, httpClients') = httpClients[CustomClient].Timeout
                    /\ httpClients'[fresh].Timeout = 60
             /\ opts = <<WithHTTPClient(CustomClient), WithTimeout(60)>> =>
                    /\ c.httpClient = CustomClient
                    /\ httpClients'[CustomClient].Timeout = 60
                    /\ httpClients'[fresh].Timeout = 30
             /\ opts = <<WithHTTPClient(0), WithTimeout(60)>> =>
                    /\ c.httpClient = 0
                    /\ httpClients' = Append(httpClients, [Timeout |-> 30])]_vars

\* a client built with WithTimeout then WithHTTPClient uses the caller's
\* http.Client with its timeout of 30; one built with a nil http.Client
\* then WithTimeout holds no transport and no timeout was set
C30_Witness ==
    /\ Len(clients) = 2
    /\ clients[1].args.opts = <<WithTimeout(60), WithHTTPClient(CustomClient)>>
    /\ clients[1].c.httpClient = CustomClient
    /\ ObservedTimeout(clients[1].c, httpClients) = 30
    /\ clients[2].args.opts = <<WithHTTPClient(0), WithTimeout(60)>>
    /\ clients[2].c.httpClient = 0
    /\ httpClients = <<[Timeout |-> 30], [Timeout |-> 60], [Timeout |-> 30]>>

====
